---- MODULE Spec2Model ----
(***************************************************************************)
(* Model of networkProjector's online traffic views.                       *)
(*                                                                         *)
(* Part I: the tab-centric UniverseAggregator (aggregator.js).             *)
(* A record of the browser's webRequest stream is added with addPacket;    *)
(* getState prunes the tree by a time window and returns a snapshot in     *)
(* which over-full planets are coagulated.                                 *)
(*                                                                         *)
(* JavaScript objects are shared by reference.  The aggregator's own tree  *)
(* is held by value in tabs / interstellar; what getState returned is held *)
(* in snap as a structure of references into that tree (the very planet    *)
(* object, a shallow copy sharing the metrics object and the satellite     *)
(* objects, or a plain value once the aggregator dropped the object).      *)
(*                                                                         *)
(* Part II: the streaming vectorizer (vectorizer.js).  queuePacket puts a  *)
(* record on a queue; every tick processQueue takes a batch off its head   *)
(* and runs each record through tokenize, updateVocab, vectorize, project, *)
(* the scaler, onlinePCA and onlineKMeans, producing one point per record. *)
(* applySettings changes the tunables of the configuration.  A tick that    *)
(* produced points emits them, unless the last emission is too recent: it  *)
(* asks the browser's storage for the retained points, and the callback    *)
(* writes them back with the tick's points appended and the oldest cut.    *)
(***************************************************************************)
EXTENDS Integers, Sequences, FiniteSets, TLC

VARIABLES
    now,           \* Date.now(), in ms
    tabs,          \* this.tabs: Map<TabId, PlanetNode>, in insertion order
    interstellar,  \* this.interstellar: Map<Domain, Node>, in insertion order
    config,        \* this.config
    snap,          \* the object getState returned, while its caller holds it
    last,          \* history: the call that produced this state, and what it saw
    pruned         \* history: the tab ids whose planet prune() has deleted

VARIABLES
    VEC_CONFIG,    \* the vectorizer's configuration
    pktQueue,      \* State.pktQueue
    vocab,         \* State.vocab: Map<token, count>, in insertion order
    tombstones,    \* State.tombstones
    docCount,      \* State.docCount
    pca,           \* State.pca
    kmeans,        \* State.kmeans
    points,        \* the points the last call of processQueue produced
    R,             \* State.R
    trace          \* history: the vectorizer's last call, and what it went through

VARIABLES
    clock,         \* Date.now() as the vectorizer reads it, in ms
    lastEmit,      \* State.lastEmit
    callbacks,     \* the storage.get calls of processQueue still to be called back
    stored,        \* vectorizedPackets in chrome.storage.local
    emitted,       \* history: the times at which processQueue emitted
    allPackets     \* the 3D view's allPackets

VARIABLES
    adjudicator,   \* the HardwareAdjudicator: fpsHistory, lastFrameTime, consecutiveLowFps, onFallback
    health         \* history: the monitor's last frame, its last evaluations, the fallbacks invoked

aggVars == <<now, tabs, interstellar, config, snap, last, pruned>>
adjVars == <<adjudicator, health>>
emitVars == <<clock, lastEmit, callbacks, stored, emitted, allPackets>>
vecVars ==
    <<VEC_CONFIG, pktQueue, vocab, tombstones, docCount, pca, kmeans, points, R, trace, emitVars>>
vars == <<aggVars, vecVars, adjVars>>

(***************************************************************************)
(* Bounds of the model.                                                    *)
(***************************************************************************)
\* constructor(windowDurationMs): the window the aggregator is built with
WindowDurationMs == 1
\* the clock stops here
MaxTime == WindowDurationMs + 1
\* addPacket is not called while the tree already counts this many records
MaxPackets == 2

\* config.maxSatellitesPerPlanet after construction
DefaultMaxSatellites == 8

\* the samples fpsHistory holds at most (60, scaled down)
FpsHistoryMax == 4
\* the samples evaluateHealth asks for (30, scaled down)
MinSamples == 2
\* this.lowFpsThreshold
LowFpsThreshold == 30
\* evaluateHealth's limit on consecutiveLowFps
LowFpsLimit == 3
\* the monitor is followed for this many frames
MaxFrames == 10

(***************************************************************************)
(* Inputs.                                                                 *)
(***************************************************************************)
\* A URL string that `new URL` parses is written by its parts; one that it
\* rejects is written by its raw text.
Url(host, path) == [protocol |-> "https:", hostname |-> host, pathname |-> path]
BadUrl == [raw |-> "not a url"]

Hosts == {"a.com"}
Urls == {Url(h, "/") : h \in Hosts} \cup {BadUrl}

\* details.tabId: a tab's id, -1 when the request belongs to no tab; the
\* field may also be missing from a record.
RequestTypes == {"main_frame", "script"}
\* the content lengths of a record: both missing, or both given
LengthInputs == {<<>>, [requestContentLength |-> 1, responseContentLength |-> 2]}

\* An optional field is a field the record may lack.
Opt(name, values) == {<<>>} \cup {name :> v : v \in values}

\* the records of a tab's traffic, and those of background traffic
Packets ==
    { [url |-> u, type |-> ty, tabId |-> t] @@ len :
        u \in Urls, ty \in RequestTypes, t \in {1, 2}, len \in LengthInputs }
    \cup
    { [url |-> u, type |-> "xmlhttprequest"] @@ t @@ len :
        u \in Urls, t \in Opt("tabId", {-1, 0}), len \in LengthInputs }

\* the slider of the 3D view: integers from 1
CapInputs == {1}
ConfigInputs == {<<>>} \cup {[maxSatellitesPerPlanet |-> m] : m \in CapInputs}

NoSnap == [none |-> TRUE]

(***************************************************************************)
(* Helpers.                                                                *)
(***************************************************************************)
Has(rec, field) == field \in DOMAIN rec

\* x || 0 on a numeric field
OrZero(rec, field) == IF Has(rec, field) THEN rec[field] ELSE 0

Min(a, b) == IF a < b THEN a ELSE b

RECURSIVE SumSeq(_)
SumSeq(s) == IF s = <<>> THEN 0 ELSE Head(s) + SumSeq(Tail(s))

Digit(d) == <<"0", "1", "2", "3", "4", "5", "6", "7", "8", "9">>[d + 1]

\* String(n) for the integers a tab id takes
RECURSIVE StringOf(_)
StringOf(n) ==
    IF n < 0 THEN "-" \o StringOf(-n)
    ELSE IF n < 10 THEN Digit(n)
    ELSE StringOf(n \div 10) \o Digit(n % 10)

\* index of the entry of a Map with this key, 0 when there is none
IndexOfKey(map, key) ==
    IF \E i \in 1..Len(map) : map[i].key = key
    THEN CHOOSE i \in 1..Len(map) : map[i].key = key
    ELSE 0

MapHas(map, key) == IndexOfKey(map, key) # 0
MapGet(map, key) == map[IndexOfKey(map, key)].node

\* Map.set: overwrite in place, or append
MapSet(map, key, node) ==
    IF MapHas(map, key)
    THEN [map EXCEPT ![IndexOfKey(map, key)].node = node]
    ELSE Append(map, [key |-> key, node |-> node])

(***************************************************************************)
(* UniverseAggregator                                                      *)
(***************************************************************************)
\* setConfig: Object.assign(this.config, newConfig)
ObjectAssign(target, source) ==
    [k \in DOMAIN target \cup DOMAIN source |->
        IF k \in DOMAIN source THEN source[k] ELSE target[k]]

\* extractTaxonomy(urlStr).domain
ExtractTaxonomy(urlStr) ==
    IF Has(urlStr, "hostname") THEN urlStr.hostname ELSE "unknown"

NoLabel == ""

\* a variant: a node that counts itself when created
CreateNodeCounted(id, type, label, t) ==
    [id |-> id,
     type |-> type,
     label |-> IF label = NoLabel THEN id ELSE label,
     children |-> <<>>,
     metrics |-> [frequency |-> 1, volume |-> 0, lastActive |-> t]]

\* createNode(id, type, label) with label || id; NoLabel is a missing argument
CreateNode(id, type, label, t) ==
    [id |-> id,
     type |-> type,
     label |-> IF label = NoLabel THEN id ELSE label,
     children |-> <<>>,
     metrics |-> [frequency |-> 0, volume |-> 0, lastActive |-> t]]

\* a variant: the response's length alone
PacketVolumeOfResponse(packet) == OrZero(packet, "responseContentLength")

\* (packet.responseContentLength || 0) + (packet.requestContentLength || 0)
PacketVolume(packet) ==
    OrZero(packet, "responseContentLength") + OrZero(packet, "requestContentLength")

\* updateNodeMetrics(node, packet), on node.metrics
UpdateMetrics(metrics, packet, t) ==
    [frequency |-> metrics.frequency + 1,
     volume |-> metrics.volume + PacketVolume(packet),
     lastActive |-> t]

UpdateNodeMetrics(node, packet, t) ==
    [node EXCEPT !.metrics = UpdateMetrics(node.metrics, packet, t)]

\* a variant: the test `tabId` alone
HasTruthyTab(packet) == Has(packet, "tabId") /\ packet.tabId # 0

\* addPacket's test `tabId && tabId !== -1`
HasUsableTab(packet) ==
    /\ Has(packet, "tabId")
    /\ packet.tabId # 0
    /\ packet.tabId # -1

\* planet.children.find(c => c.id === domain): its index, 0 when not found
FindChild(children, domain) ==
    IF \E i \in 1..Len(children) : children[i].id = domain
    THEN CHOOSE i \in 1..Len(children) :
            /\ children[i].id = domain
            /\ \A j \in 1..(i - 1) : children[j].id # domain
    ELSE 0

\* a variant: a satellite pushed for every record
AddSatelliteAlways(children, domain, packet, t) ==
    Append(children, UpdateNodeMetrics(CreateNode(domain, "satellite", NoLabel, t), packet, t))

\* addSatellite(planet, domain, packet): the planet's new children
AddSatellite(children, domain, packet, t) ==
    LET found == FindChild(children, domain)
        withNew == IF found = 0
                   THEN Append(children, CreateNode(domain, "satellite", NoLabel, t))
                   ELSE children
        at == IF found = 0 THEN Len(withNew) ELSE found
    IN [withNew EXCEPT ![at] = UpdateNodeMetrics(withNew[at], packet, t)]

\* the label of `Tab ${tabId}`
TabLabel(tabId) == "Tab " \o StringOf(tabId)

\* addPacket, the branch of a record that belongs to a tab; t is what
\* Date.now() returns while the planet is created and updated, later what it
\* returns in addSatellite
AddToPlanetAt(map, packet, t, later) ==
    LET tabId == packet.tabId
        domain == ExtractTaxonomy(packet.url)
        created == IF MapHas(map, tabId) THEN map
                   ELSE MapSet(map, tabId, CreateNode(StringOf(tabId), "planet", domain, t))
        planet == MapGet(created, tabId)
        labelled == IF packet.type = "main_frame" \/ planet.label = TabLabel(tabId)
                    THEN [planet EXCEPT !.label = domain]
                    ELSE planet
        counted == UpdateNodeMetrics(labelled, packet, t)
        withSat == [counted EXCEPT
                        !.children = AddSatellite(counted.children, domain, packet, later)]
    IN MapSet(created, tabId, withSat)

\* the same, when the clock does not move during the call
AddToPlanet(map, packet, t) == AddToPlanetAt(map, packet, t, t)

\* addInterstellar(domain, packet)
AddInterstellar(map, domain, packet, t) ==
    LET created == IF MapHas(map, domain) THEN map
                   ELSE MapSet(map, domain, CreateNode(domain, "asteroid", NoLabel, t))
    IN MapSet(created, domain, UpdateNodeMetrics(MapGet(created, domain), packet, t))

\* a variant: the cutoff taken one millisecond too early
PlanetStaleLate(planet, cutoff) == planet.metrics.lastActive < cutoff - 1

\* prune(), the test that deletes a planet
PlanetStale(planet, cutoff) == planet.metrics.lastActive < cutoff

\* prune(), the filter that keeps a satellite
SatelliteKept(sat, cutoff) == sat.metrics.lastActive > cutoff

\* prune(), the test that deletes an asteroid
AsteroidStale(node, cutoff) == node.metrics.lastActive < cutoff

\* prune() on this.tabs
PruneTabs(map, cutoff) ==
    LET live == SelectSeq(map, LAMBDA e : ~PlanetStale(e.node, cutoff))
    IN [i \in 1..Len(live) |->
            [live[i] EXCEPT !.node.children =
                SelectSeq(@, LAMBDA sat : SatelliteKept(sat, cutoff))]]

\* prune() on this.interstellar
PruneInterstellar(map, cutoff) ==
    SelectSeq(map, LAMBDA e : ~AsteroidStale(e.node, cutoff))

\* insert one node into a list sorted by volume, descending, after its equals
RECURSIVE InsertByVolume(_, _)
InsertByVolume(sorted, node) ==
    IF sorted = <<>> THEN <<node>>
    ELSE IF node.metrics.volume - Head(sorted).metrics.volume > 0
         THEN <<node>> \o sorted
         ELSE <<Head(sorted)>> \o InsertByVolume(Tail(sorted), node)

\* a variant: the comparator a.metrics.volume - b.metrics.volume
RECURSIVE InsertByVolumeAscending(_, _)
InsertByVolumeAscending(sorted, node) ==
    IF sorted = <<>> THEN <<node>>
    ELSE IF Head(sorted).metrics.volume - node.metrics.volume > 0
         THEN <<node>> \o sorted
         ELSE <<Head(sorted)>> \o InsertByVolumeAscending(Tail(sorted), node)

RECURSIVE SortByVolumeAscending(_)
SortByVolumeAscending(children) ==
    IF children = <<>> THEN <<>>
    ELSE InsertByVolumeAscending(SortByVolumeAscending(SubSeq(children, 1, Len(children) - 1)),
                                 children[Len(children)])

\* [...children].sort((a, b) => b.metrics.volume - a.metrics.volume): stable
RECURSIVE SortByVolume(_)
SortByVolume(children) ==
    IF children = <<>> THEN <<>>
    ELSE InsertByVolume(SortByVolume(SubSeq(children, 1, Len(children) - 1)),
                        children[Len(children)])

\* a variant: one satellite more than the cap is kept
KeptOneMore(children, max) ==
    SubSeq(SortByVolume(children), 1, Min(max + 1, Len(children)))

\* sorted.slice(0, MAX) and sorted.slice(MAX), for MAX >= 0
Kept(children, max) ==
    SubSeq(SortByVolume(children), 1, Min(max, Len(children)))
Squashed(children, max) ==
    SubSeq(SortByVolume(children), Min(max, Len(children)) + 1, Len(children))

\* a variant: the volume reduced over the frequencies
ClusterMoonOfFrequencies(planetId, squashed, t) ==
    [id |-> planetId \o "-cluster",
     type |-> "satellite",
     label |-> "+" \o StringOf(Len(squashed)) \o " Others",
     metrics |->
        [frequency |-> SumSeq([i \in 1..Len(squashed) |-> squashed[i].metrics.frequency]),
         volume |-> SumSeq([i \in 1..Len(squashed) |-> squashed[i].metrics.frequency]),
         lastActive |-> t]]

\* the "Cluster" moon of getState
ClusterMoon(planetId, squashed, t) ==
    [id |-> planetId \o "-cluster",
     type |-> "satellite",
     label |-> "+" \o StringOf(Len(squashed)) \o " Others",
     metrics |->
        [frequency |-> SumSeq([i \in 1..Len(squashed) |-> squashed[i].metrics.frequency]),
         volume |-> SumSeq([i \in 1..Len(squashed) |-> squashed[i].metrics.volume]),
         lastActive |-> t]]

(***************************************************************************)
(* References held by a returned snapshot.                                 *)
(***************************************************************************)
\* the planet object stored under key
PlanetRef(key) == [ref |-> "planet", key |-> key]
\* the satellite object with this id among the children of the planet at key
SatelliteRef(key, id) == [ref |-> "satellite", key |-> key, id |-> id]
\* an object only the snapshot holds
ValueRef(node) == [ref |-> "value", node |-> node]

\* getState, the callback of planets.map: the planet object itself, or
\* { ...planet, children: [...kept, clusterMoon] }
Coagulate(entry, max, t) ==
    LET planet == entry.node
        kept == Kept(planet.children, max)
        squashed == Squashed(planet.children, max)
    IN IF Len(planet.children) > max /\ Len(squashed) > 0
       THEN [ref |-> "copy",
             key |-> entry.key,
             id |-> planet.id,
             type |-> planet.type,
             label |-> planet.label,
             children |->
                [i \in 1..Len(kept) |-> SatelliteRef(entry.key, kept[i].id)]
                \o <<ValueRef(ClusterMoon(planet.id, squashed, t))>>]
       ELSE PlanetRef(entry.key)

\* a variant: the cap the aggregator was constructed with
StateOfFirstCap(map, max, window, t) ==
    [timestamp |-> t,
     windowDuration |-> window,
     domains |-> [i \in 1..Len(map) |-> Coagulate(map[i], DefaultMaxSatellites, t)]]

\* getState, the object returned
StateOf(map, max, window, t) ==
    [timestamp |-> t,
     windowDuration |-> window,
     domains |-> [i \in 1..Len(map) |-> Coagulate(map[i], max, t)]]

\* what a reference reads
ResolveSatellite(r, map) ==
    IF r.ref = "value" THEN r.node
    ELSE LET children == MapGet(map, r.key).children
         IN children[FindChild(children, r.id)]

ResolvePlanet(p, map) ==
    CASE p.ref = "planet" -> MapGet(map, p.key)
      [] p.ref = "copy" ->
            [id |-> p.id,
             type |-> p.type,
             label |-> p.label,
             children |-> [i \in 1..Len(p.children) |-> ResolveSatellite(p.children[i], map)],
             metrics |-> MapGet(map, p.key).metrics]
      [] OTHER -> p.node

\* what the caller reads through the returned object
View(s, map) ==
    IF s = NoSnap THEN NoSnap
    ELSE [s EXCEPT !.domains = [i \in 1..Len(@) |-> ResolvePlanet(@[i], map)]]

\* whether the aggregator's tree still holds the object a reference names
SatelliteLive(r, map) ==
    /\ MapHas(map, r.key)
    /\ FindChild(MapGet(map, r.key).children, r.id) # 0

\* The snapshot keeps the objects the aggregator drops: a reference to an
\* object that `after` no longer holds becomes the value it had in `before`.
Detach(s, before, after) ==
    IF s = NoSnap THEN NoSnap
    ELSE [s EXCEPT !.domains = [i \in 1..Len(@) |->
            LET p == @[i]
            IN CASE p.ref = "value" -> p
                 [] ~MapHas(after, p.key) -> ValueRef(ResolvePlanet(p, before))
                 [] p.ref = "planet" -> p
                 [] OTHER ->
                    [p EXCEPT !.children = [j \in 1..Len(@) |->
                        IF @[j].ref = "value" \/ SatelliteLive(@[j], after)
                        THEN @[j]
                        ELSE ValueRef(ResolveSatellite(@[j], before))]]]]

(***************************************************************************)
(* Part II.  The streaming vectorizer.                                     *)
(*                                                                         *)
(* Bounds of the model.  The configuration is scaled down: the source's    *)
(* VEC_CONFIG has vocabSize 1000 (and applySettings accepts no vocabSize   *)
(* below 128), batch 32, kClusters 8 and pcaDim 3.                         *)
(***************************************************************************)
\* VEC_CONFIG.vocabSize after load
DefaultVocabSize == 10
\* applySettings: the least vocabSize it accepts
MinVocabSize == 6
\* VEC_CONFIG.batch
Batch == 2
\* VEC_CONFIG.kClusters
KClusters == 2
\* VEC_CONFIG.pcaDim
PcaDim == 2
\* queuePacket is not called after this many records were queued
MaxQueued == 3
\* the most points the stored list retains (2500 in the source)
MaxRetained == 3
\* Date.now() when the vectorizer is loaded
LoadTime == 1000
\* VEC_CONFIG.emitHz
EmitHz == 10

(***************************************************************************)
(* Numbers.  A JavaScript number is written as a fraction n/d in lowest    *)
(* terms with d > 0, and the three values that are not finite with d = 0:  *)
(* NaN, Infinity and -Infinity.  The arithmetic is exact: the rounding of  *)
(* doubles and of Float32Array elements is not modelled.                   *)
(***************************************************************************)
Abs(x) == IF x < 0 THEN -x ELSE x

RECURSIVE Gcd(_, _)
Gcd(a, b) == IF b = 0 THEN a ELSE Gcd(b, a % b)

\* the fraction n/d, for d # 0
Q(n, d) ==
    LET g == Gcd(Abs(n), Abs(d))
        s == IF d < 0 THEN -1 ELSE 1
    IN [n |-> s * (n \div g), d |-> s * (d \div g)]

Num(i) == [n |-> i, d |-> 1]
NaN == [n |-> 0, d |-> 0]
Infinity == [n |-> 1, d |-> 0]
NegInfinity == [n |-> -1, d |-> 0]

\* isFinite, isNaN
IsFinite(x) == x.d # 0
IsNaN(x) == x.d = 0 /\ x.n = 0

Sign(x) == IF x.n > 0 THEN 1 ELSE IF x.n < 0 THEN -1 ELSE 0
Signed(s) == [n |-> s, d |-> 0]

\* a + b
FAdd(a, b) ==
    IF IsFinite(a) /\ IsFinite(b) THEN Q(a.n * b.d + b.n * a.d, a.d * b.d)
    ELSE IF IsNaN(a) \/ IsNaN(b) THEN NaN
    ELSE IF IsFinite(a) THEN b
    ELSE IF IsFinite(b) THEN a
    ELSE IF a = b THEN a ELSE NaN

FNeg(a) == [n |-> -a.n, d |-> a.d]

\* a - b
FSub(a, b) == FAdd(a, FNeg(b))

\* a * b
FMul(a, b) ==
    IF IsFinite(a) /\ IsFinite(b) THEN Q(a.n * b.n, a.d * b.d)
    ELSE IF IsNaN(a) \/ IsNaN(b) THEN NaN
    ELSE IF Sign(a) * Sign(b) = 0 THEN NaN
    ELSE Signed(Sign(a) * Sign(b))

\* a / b
FDiv(a, b) ==
    IF IsFinite(a) /\ IsFinite(b)
    THEN IF b.n # 0 THEN Q(a.n * b.d, a.d * b.n)
         ELSE IF a.n = 0 THEN NaN ELSE Signed(Sign(a))
    ELSE IF IsNaN(a) \/ IsNaN(b) THEN NaN
    ELSE IF IsFinite(a) THEN Num(0)
    ELSE IF IsFinite(b) THEN Signed(Sign(a) * (IF b.n < 0 THEN -1 ELSE 1))
    ELSE NaN

\* an/ad < bn/bd for positive ad and bd, by the integer parts and then the
\* reciprocals of the fractional parts
RECURSIVE QLess(_, _, _, _)
QLess(an, ad, bn, bd) ==
    IF an \div ad # bn \div bd THEN an \div ad < bn \div bd
    ELSE IF an % ad = 0 THEN bn % bd # 0
    ELSE IF bn % bd = 0 THEN FALSE
    ELSE QLess(bd, bn % bd, ad, an % ad)

\* a < b, false when either is NaN
FLess(a, b) ==
    IF IsNaN(a) \/ IsNaN(b) THEN FALSE
    ELSE IF IsFinite(a) /\ IsFinite(b) THEN QLess(a.n, a.d, b.n, b.d)
    ELSE IF a = b THEN FALSE
    ELSE IF IsFinite(a) THEN b.n > 0
    ELSE a.n < 0

\* a > b
FGreater(a, b) == FLess(b, a)

\* Math.min, Math.max: NaN when either is NaN
MathMin(a, b) == IF IsNaN(a) \/ IsNaN(b) THEN NaN ELSE IF FLess(b, a) THEN b ELSE a
MathMax(a, b) == IF IsNaN(a) \/ IsNaN(b) THEN NaN ELSE IF FLess(a, b) THEN b ELSE a

\* the integer in lo..hi whose square is k
RECURSIVE RootBetween(_, _, _)
RootBetween(k, lo, hi) ==
    IF lo = hi THEN lo
    ELSE LET mid == (lo + hi + 1) \div 2
         IN IF mid * mid <= k
            THEN RootBetween(k, mid, hi)
            ELSE RootBetween(k, lo, mid - 1)

\* Math.sqrt of a finite number that is the square of a fraction
MathSqrt(a) ==
    [n |-> RootBetween(a.n, 0, Min(a.n, 46340)),
     d |-> RootBetween(a.d, 1, Min(a.d, 46340))]

RECURSIVE FSum(_)
FSum(s) == IF s = <<>> THEN Num(0) ELSE FAdd(Head(s), FSum(Tail(s)))

\* null
Null == <<>>

(***************************************************************************)
(* The records queued.                                                     *)
(***************************************************************************)
RECURSIVE Join(_, _)
Join(parts, sep) ==
    IF parts = <<>> THEN ""
    ELSE IF Len(parts) = 1 THEN parts[1]
    ELSE parts[1] \o sep \o Join(Tail(parts), sep)

\* A URL that `new URL` parses, written by the labels of its host, the
\* segments of its path and the keys of its query.
ParsedUrl(labels, segments, keys) ==
    [protocol |-> "https:",
     hostname |-> Join(labels, "."),
     pathname |-> "/" \o Join(segments, "/"),
     labels |-> labels,
     segments |-> segments,
     searchKeys |-> keys]

\* the segments that /^\d+$/ matches, and those /^[0-9a-fA-F-]{8,}$/ matches
DigitSegments == {"42"}
HexishSegments == {"deadbeef"}

\* toLowerCase, on the header names and values of the records
ToLowerCase(str) ==
    CASE str = "Content-Type" -> "content-type"
      [] str = "Cache-Control" -> "cache-control"
      [] OTHER -> str

\* value.split(';')[0], on the header values of the records
BeforeSemicolon(str) ==
    CASE str = "text/html; charset=utf-8" -> "text/html"
      [] OTHER -> str

\* value.includes(part), on the header values of the records
Includes(str, part) ==
    \/ str = part
    \/ str = "no-cache, max-age=0" /\ part \in {"no-cache", "max-age"}
    \/ str = "max-age=60" /\ part = "max-age"

\* packetInfo as the background page builds it; requestId is given at the call
PacketInfo(url, type, headers) ==
    [url |-> url,
     method |-> "GET",
     statusCode |-> 200,
     type |-> type,
     tabId |-> 1,
     requestHeadersSize |-> 300,
     responseHeadersSize |-> 0,
     responseHeaders |-> headers,
     latencyMs |-> 20,
     requestContentLength |-> 0,
     responseContentLength |-> 2000]

VecPackets ==
    { PacketInfo(ParsedUrl(<<"a", "com">>, <<>>, <<>>), "main_frame", <<>>),
      PacketInfo(ParsedUrl(<<"cdn", "b", "com">>, <<"api", "42">>, <<"q">>), "script",
                 <<[name |-> "Content-Type", value |-> "text/html; charset=utf-8"]>>),
      PacketInfo(BadUrl, "script", <<>>) }

\* The browser's event, details, of a completed request.  Its
\* responseHeaders may be missing, and so may the value of a header; the
\* sizes and the latency stand for what onCompleted computes them from (the
\* content-length headers, the data stored when the request was sent), and
\* are missing when that is.
Details(url, headers, sizes) ==
    [url |-> url, method |-> "GET", statusCode |-> 200, type |-> "script", tabId |-> 1]
    @@ headers @@ sizes

\* header.name.length + (header.value ? header.value.length : 0)
HeaderSize(h) == Len(h.name) + (IF Has(h, "value") THEN Len(h.value) ELSE 0)

\* onCompleted throws: header.name.length of an entry without a name
ListenerThrows(details) ==
    /\ Has(details, "responseHeaders")
    /\ \E i \in 1..Len(details.responseHeaders) : ~Has(details.responseHeaders[i], "name")

\* a variant: responseHeaders: details.responseHeaders
CompletedAsGiven(details) ==
    [url |-> details.url,
     method |-> details.method,
     statusCode |-> details.statusCode,
     type |-> details.type,
     tabId |-> details.tabId,
     requestHeadersSize |-> OrZero(details, "requestHeadersSize"),
     responseHeadersSize |->
        IF Has(details, "responseHeaders")
        THEN SumSeq([i \in 1..Len(details.responseHeaders) |->
                        HeaderSize(details.responseHeaders[i])])
        ELSE 0,
     latencyMs |-> OrZero(details, "latencyMs"),
     requestContentLength |-> OrZero(details, "requestContentLength"),
     responseContentLength |-> OrZero(details, "responseContentLength")]
    @@ (IF Has(details, "responseHeaders")
        THEN [responseHeaders |-> details.responseHeaders]
        ELSE <<>>)

\* packetInfo as onCompleted builds it from details
Completed(details) ==
    [url |-> details.url,
     method |-> details.method,
     statusCode |-> details.statusCode,
     type |-> details.type,
     tabId |-> details.tabId,
     requestHeadersSize |-> OrZero(details, "requestHeadersSize"),
     responseHeadersSize |->
        IF Has(details, "responseHeaders")
        THEN SumSeq([i \in 1..Len(details.responseHeaders) |->
                        HeaderSize(details.responseHeaders[i])])
        ELSE 0,
     responseHeaders |->
        IF Has(details, "responseHeaders") THEN details.responseHeaders ELSE <<>>,
     latencyMs |-> OrZero(details, "latencyMs"),
     requestContentLength |-> OrZero(details, "requestContentLength"),
     responseContentLength |-> OrZero(details, "responseContentLength")]

\* the response headers of an event
HeaderInputs ==
    Opt("responseHeaders",
        { <<>>,
          <<[name |-> "Content-Type", value |-> "text/html; charset=utf-8"]>>,
          <<[name |-> "Content-Type"]>>,
          <<[name |-> "", value |-> "gzip"]>>,
          <<[value |-> "gzip"]>>,
          <<[name |-> "Cache-Control", value |-> "no-cache, max-age=0"],
            [name |-> "Content-Encoding", value |-> "gzip"]>>,
          <<[name |-> "Content-Encoding"], [name |-> "Cache-Control", value |-> "max-age=60"]>> })

\* byte counts on both sides of every threshold of bucketSize, and
\* latencies on both sides of every threshold of bucketLatency
ByteInputs == {0, 1, 1023, 1024, 16383, 16384, 131071, 131072, 1048575, 1048576}
LatencyInputs == {0, 1, 49, 50, 199, 200, 999, 1000}

DetailsInputs ==
    { Details(url, headers, <<>>) :
        url \in {ParsedUrl(<<"cdn", "b", "com">>, <<"api", "42">>, <<"q">>), BadUrl},
        headers \in HeaderInputs }
    \cup
    { Details(ParsedUrl(<<"a", "com">>, <<>>, <<>>), <<>>, req @@ res) :
        req \in Opt("requestContentLength", ByteInputs),
        res \in Opt("responseContentLength", ByteInputs) }
    \cup
    { Details(BadUrl, <<>>, size @@ lat) :
        size \in Opt("requestHeadersSize", {300}),
        lat \in Opt("latencyMs", LatencyInputs) }

\* details.timeStamp of the request with this id
TimeStampOf(id) == 1000 + id

(***************************************************************************)
(* tokenize                                                                *)
(***************************************************************************)
\* Set.add: a Set keeps its elements in the order they were first added
SetAdd(set, x) ==
    IF \E i \in 1..Len(set) : set[i] = x THEN set ELSE Append(set, x)

RECURSIVE SetAddAll(_, _)
SetAddAll(set, xs) ==
    IF xs = <<>> THEN set ELSE SetAddAll(SetAdd(set, Head(xs)), Tail(xs))

\* getRootDomain(host), of a host with these labels
GetRootDomain(host, labels) ==
    IF host = "" THEN ""
    ELSE IF Len(labels) >= 2 THEN labels[Len(labels) - 1]
    ELSE host

\* a variant: the thresholds belong to the lower band
BucketSizeInclusive(bytes) ==
    IF bytes <= 0 THEN "none"
    ELSE IF bytes <= 1024 THEN "tiny"
    ELSE IF bytes <= 16 * 1024 THEN "small"
    ELSE IF bytes <= 128 * 1024 THEN "medium"
    ELSE IF bytes <= 1024 * 1024 THEN "large"
    ELSE "huge"

\* bucketSize(bytes)
BucketSize(bytes) ==
    IF bytes <= 0 THEN "none"
    ELSE IF bytes < 1024 THEN "tiny"
    ELSE IF bytes < 16 * 1024 THEN "small"
    ELSE IF bytes < 128 * 1024 THEN "medium"
    ELSE IF bytes < 1024 * 1024 THEN "large"
    ELSE "huge"

\* bucketLatency(ms)
BucketLatency(ms) ==
    IF ms <= 0 THEN "unknown"
    ELSE IF ms < 50 THEN "fast"
    ELSE IF ms < 200 THEN "medium"
    ELSE IF ms < 1000 THEN "slow"
    ELSE "veryslow"

\* the tokens of one path segment
SegmentTokens(seg) ==
    <<"path:" \o seg,
      IF seg \in DigitSegments THEN "pathseg:num"
      ELSE IF seg \in HexishSegments THEN "pathseg:hexish"
      ELSE "pathseg:alpha">>

RECURSIVE PathTokens(_)
PathTokens(segments) ==
    IF segments = <<>> THEN <<>>
    ELSE SegmentTokens(Head(segments)) \o PathTokens(Tail(segments))

\* the tokens the try block adds; none when `new URL` throws
UrlTokens(url) ==
    IF ~Has(url, "hostname") THEN <<>>
    ELSE <<"host:" \o url.hostname>>
         \o (IF GetRootDomain(url.hostname, url.labels) # ""
             THEN <<"root:" \o GetRootDomain(url.hostname, url.labels)>>
             ELSE <<>>)
         \o PathTokens(url.segments)
         \o <<"depth:" \o StringOf(Len(url.segments))>>
         \o [i \in 1..Len(url.searchKeys) |-> "query:" \o url.searchKeys[i]]

\* the tokens of one response header
HeaderTokens(h) ==
    IF ~Has(h, "name") \/ h.name = "" THEN <<>>
    ELSE LET name == ToLowerCase(h.name)
             value == ToLowerCase(IF Has(h, "value") THEN h.value ELSE "")
         IN IF name = "content-type" THEN <<"type:" \o BeforeSemicolon(value)>>
            ELSE IF name = "cache-control"
            THEN (IF Includes(value, "no-store") \/ Includes(value, "no-cache")
                  THEN <<"cache:nocache">> ELSE <<>>)
                 \o (IF Includes(value, "max-age") THEN <<"cache:maxage">> ELSE <<>>)
            ELSE IF name = "content-encoding" THEN <<"encoding:" \o value>>
            ELSE <<>>

RECURSIVE HeadersTokens(_)
HeadersTokens(headers) ==
    IF headers = <<>> THEN <<>>
    ELSE HeaderTokens(Head(headers)) \o HeadersTokens(Tail(headers))

\* tokenize(packet) throws: packet.responseHeaders.forEach of a record that
\* has no responseHeaders is a TypeError
TokenizeThrows(packet) == ~Has(packet, "responseHeaders")

\* tokenize(packet): the Set of its tokens, in insertion order
Tokenize(packet) ==
    LET reqBytes == OrZero(packet, "requestContentLength") + OrZero(packet, "requestHeadersSize")
        resBytes == OrZero(packet, "responseContentLength") + OrZero(packet, "responseHeadersSize")
        totalBytes == reqBytes + resBytes
    IN SetAddAll(<<>>,
            UrlTokens(packet.url)
            \o <<"method:" \o packet.method,
                 "type:" \o packet.type,
                 "status:" \o StringOf(packet.statusCode \div 100) \o "xx">>
            \o HeadersTokens(packet.responseHeaders)
            \o <<"flow:size:" \o BucketSize(totalBytes),
                 "flow:reqSize:" \o BucketSize(reqBytes),
                 "flow:resSize:" \o BucketSize(resBytes),
                 "flow:latency:" \o BucketLatency(packet.latencyMs)>>)

(***************************************************************************)
(* updateVocab                                                             *)
(***************************************************************************)
\* State.vocab.get(token) || 0
CountOf(map, token) == IF MapHas(map, token) THEN MapGet(map, token) ELSE 0

\* a variant: each token of a record is counted twice
RECURSIVE CountTokensTwice(_, _)
CountTokensTwice(map, tokens) ==
    IF tokens = <<>> THEN map
    ELSE CountTokensTwice(MapSet(map, Head(tokens), CountOf(map, Head(tokens)) + 2),
                          Tail(tokens))

\* tokens.forEach(token => State.vocab.set(token, (get(token) || 0) + 1))
RECURSIVE CountTokens(_, _)
CountTokens(map, tokens) ==
    IF tokens = <<>> THEN map
    ELSE CountTokens(MapSet(map, Head(tokens), CountOf(map, Head(tokens)) + 1), Tail(tokens))

\* insert one entry into a list sorted by count, descending, after its equals
RECURSIVE InsertByCount(_, _)
InsertByCount(sorted, entry) ==
    IF sorted = <<>> THEN <<entry>>
    ELSE IF entry.node - Head(sorted).node > 0
         THEN <<entry>> \o sorted
         ELSE <<Head(sorted)>> \o InsertByCount(Tail(sorted), entry)

\* a variant: the comparator a[1] - b[1]
RECURSIVE InsertByCountAscending(_, _)
InsertByCountAscending(sorted, entry) ==
    IF sorted = <<>> THEN <<entry>>
    ELSE IF Head(sorted).node - entry.node > 0
         THEN <<entry>> \o sorted
         ELSE <<Head(sorted)>> \o InsertByCountAscending(Tail(sorted), entry)

RECURSIVE SortByCountAscending(_)
SortByCountAscending(entries) ==
    IF entries = <<>> THEN <<>>
    ELSE InsertByCountAscending(SortByCountAscending(SubSeq(entries, 1, Len(entries) - 1)),
                                entries[Len(entries)])

\* [...entries].sort((a, b) => b[1] - a[1]): stable
RECURSIVE SortByCount(_)
SortByCount(entries) ==
    IF entries = <<>> THEN <<>>
    ELSE InsertByCount(SortByCount(SubSeq(entries, 1, Len(entries) - 1)),
                       entries[Len(entries)])

\* a variant: the table is cut when it holds more than vocabSize * 2 entries
OverfullAtTwice(map, vocabSize) == Len(map) > vocabSize * 2

\* State.vocab.size > VEC_CONFIG.vocabSize * 1.2
Overfull(map, vocabSize) == 5 * Len(map) > 6 * vocabSize

\* updateVocab(tokens): the table and the tombstone counter after the call
UpdateVocab(map, stones, tokens, vocabSize) ==
    LET counted == CountTokens(map, tokens)
    IN IF Overfull(counted, vocabSize)
       THEN [vocab |-> SubSeq(SortByCount(counted), 1, Min(vocabSize, Len(counted))),
             tombstones |-> stones + 1,
             counted |-> counted]
       ELSE [vocab |-> counted, tombstones |-> stones, counted |-> counted]

(***************************************************************************)
(* vectorize: the band of document frequencies                             *)
(***************************************************************************)
\* dfRatio < minDfRatio || dfRatio > maxDfRatio, for dfRatio = df / N
OutOfBand(df, N, cfg) ==
    \/ FLess(Q(df, N), cfg.minDfRatio)
    \/ FGreater(Q(df, N), cfg.maxDfRatio)

\* the tokens that vectorize adds a weight for
Weighted(tokens, map, docs, cfg) ==
    LET N == IF docs > 1 THEN docs ELSE 1
    IN SelectSeq(tokens, LAMBDA token : ~OutOfBand(CountOf(map, token), N, cfg))

(***************************************************************************)
(* murmur32.  A 32-bit word is kept as its two 16-bit halves, hi and lo,   *)
(* so that no product leaves the range of the integers of the checker.     *)
(***************************************************************************)
\* VEC_CONFIG.hashDim and State.hashSeed
HashDim == 2048
HashSeed == 1337

\* str.charCodeAt(i), for the characters of the records' tokens
CharCode ==
    "a" :> 97 @@ "b" :> 98 @@ "c" :> 99 @@ "d" :> 100 @@ "e" :> 101 @@ "f" :> 102 @@
    "g" :> 103 @@ "h" :> 104 @@ "i" :> 105 @@ "j" :> 106 @@ "k" :> 107 @@ "l" :> 108 @@
    "m" :> 109 @@ "n" :> 110 @@ "o" :> 111 @@ "p" :> 112 @@ "q" :> 113 @@ "r" :> 114 @@
    "s" :> 115 @@ "t" :> 116 @@ "u" :> 117 @@ "v" :> 118 @@ "w" :> 119 @@ "x" :> 120 @@
    "y" :> 121 @@ "z" :> 122 @@ "A" :> 65 @@ "B" :> 66 @@ "C" :> 67 @@ "D" :> 68 @@
    "E" :> 69 @@ "F" :> 70 @@ "G" :> 71 @@ "H" :> 72 @@ "I" :> 73 @@ "J" :> 74 @@
    "K" :> 75 @@ "L" :> 76 @@ "M" :> 77 @@ "N" :> 78 @@ "O" :> 79 @@ "P" :> 80 @@
    "Q" :> 81 @@ "R" :> 82 @@ "S" :> 83 @@ "T" :> 84 @@ "U" :> 85 @@ "V" :> 86 @@
    "W" :> 87 @@ "X" :> 88 @@ "Y" :> 89 @@ "Z" :> 90 @@ "0" :> 48 @@ "1" :> 49 @@
    "2" :> 50 @@ "3" :> 51 @@ "4" :> 52 @@ "5" :> 53 @@ "6" :> 54 @@ "7" :> 55 @@
    "8" :> 56 @@ "9" :> 57 @@ ":" :> 58 @@ "." :> 46 @@ "/" :> 47 @@ "-" :> 45 @@
    "+" :> 43 @@ "_" :> 95 @@ ";" :> 59 @@ "=" :> 61 @@ " " :> 32

Word(hi, lo) == [hi |-> hi, lo |-> lo]

\* a ^ b on 16 bits
RECURSIVE Xor16(_, _)
Xor16(a, b) ==
    IF a = 0 THEN b
    ELSE IF b = 0 THEN a
    ELSE ((a + b) % 2) + 2 * Xor16(a \div 2, b \div 2)

\* x ^ y
Xor32(x, y) == Word(Xor16(x.hi, y.hi), Xor16(x.lo, y.lo))

\* a * b modulo 2^16, for a and b below 2^16
MulMod16(a, b) == ((a % 256) * b + (((a \div 256) * b) % 256) * 256) % 65536

\* Math.imul(x, m): the low 32 bits of the product
Imul(x, m) ==
    LET p0 == (x.lo % 256) * m.lo
        p1 == (x.lo \div 256) * m.lo
        low == p0 + (p1 % 256) * 256
        carry == (low \div 65536) + (p1 \div 256)
    IN Word((carry + MulMod16(x.hi, m.lo) + MulMod16(x.lo, m.hi)) % 65536, low % 65536)

\* x >>> 13 and x >>> 15
ShiftRight13(x) == Word(x.hi \div 8192, (x.hi % 8192) * 8 + (x.lo \div 8192))
ShiftRight15(x) == Word(x.hi \div 32768, (x.hi % 32768) * 2 + (x.lo \div 32768))

\* 0x5bd1e995
Multiplier == Word(23505, 59797)

\* a 32-bit word
IsWord(x) == x.hi \in 0..65535 /\ x.lo \in 0..65535

\* the loop of murmur32 from character i on; every h is a 32-bit word
RECURSIVE MurmurFrom(_, _, _)
MurmurFrom(str, i, h) ==
    IF i > Len(str) THEN h
    ELSE LET mixed == Imul(Xor32(h, Word(0, CharCode[SubSeq(str, i, i)])), Multiplier)
             next == Xor32(mixed, ShiftRight13(mixed))
         IN IF IsWord(next) THEN MurmurFrom(str, i + 1, next) ELSE next

\* murmur32(str): `return h >>> 0`, the word read as an unsigned integer
Murmur32(str) ==
    LET h == Imul(MurmurFrom(str, 1, Word(0, HashSeed)), Multiplier)
    IN Xor32(h, ShiftRight15(h))

\* a variant: `return h | 0`, the word read as a signed integer, and the
\* remainder of a negative integer, which is not positive
SignedRemainder(h, dim) ==
    IF h.hi >= 32768
    THEN 0 - (((((65535 - h.hi) % dim) * (65536 % dim)) + (65536 - h.lo)) % dim)
    ELSE (((h.hi % dim) * (65536 % dim)) + h.lo) % dim

\* h % dim for the unsigned integer h
Remainder(h, dim) == (((h.hi % dim) * (65536 % dim)) + h.lo) % dim

(***************************************************************************)
(* vectorize.  A weight is 1 or ln(a) + 1 for a fraction a, and a sum of   *)
(* weights is n + ln(a) for an integer n and the product a of the          *)
(* fractions: it is written as the pair of n and a, which is the same for  *)
(* two sums exactly when the sums are equal.  The hashed vector is written *)
(* as the function from the indexes vectorize wrote at to the element      *)
(* there; the other elements of the Float32Array(hashDim) are 0.           *)
(***************************************************************************)
Weight(n, a) == [n |-> n, log |-> a]

\* a + b, and -a
WAdd(a, b) == Weight(a.n + b.n, FMul(a.log, b.log))
WNeg(a) == Weight(0 - a.n, FDiv(Num(1), a.log))

RECURSIVE WSum(_)
WSum(ws) == IF ws = <<>> THEN Weight(0, Num(1)) ELSE WAdd(Head(ws), WSum(Tail(ws)))

\* a < b, for two weights with the same n: Math.log is increasing
WLess(a, b) == a.n = b.n /\ FLess(a.log, b.log)

\* a variant: the fraction upside down
IdfRising(N, df) == Weight(1, Q(df + 1, N + 1))

\* Math.log((N + 1) / (df + 1)) + 1
Idf(N, df) == Weight(1, Q(N + 1, df + 1))

\* w for a token
WeightOf(token, map, N, cfg) ==
    IF cfg.weighting = "tfidf" THEN Idf(N, CountOf(map, token)) ELSE Weight(1, Num(1))

\* a record whose tokens path:mr and host:a.com have the same hash modulo
\* hashDim, and a record of another host
HashPackets ==
    { PacketInfo(ParsedUrl(<<"a", "com">>, <<"mr">>, <<>>), "script", <<>>),
      PacketInfo(ParsedUrl(<<"cdn", "b", "com">>, <<"api", "42">>, <<"q">>), "script",
                 <<[name |-> "Content-Type", value |-> "text/html; charset=utf-8"]>>) }

\* the tokens of the records of the model
AllTokens ==
    LET records == VecPackets \cup HashPackets
                   \cup {Completed(d) : d \in {x \in DetailsInputs : ~ListenerThrows(x)}}
    IN UNION {{Tokenize(packet)[k] : k \in 1..Len(Tokenize(packet))} : packet \in records}

\* murmur32(token) % dim for each of a set of tokens
RECURSIVE HashesOf(_, _)
HashesOf(tokens, dim) ==
    IF tokens = {} THEN <<>>
    ELSE LET token == CHOOSE t \in tokens : TRUE
         IN (token :> Remainder(Murmur32(token), dim)) @@ HashesOf(tokens \ {token}, dim)

\* the hashes of the model's tokens, computed once
TokenHashes == HashesOf(AllTokens, HashDim)

\* murmur32(token) % VEC_CONFIG.hashDim
HashOf(token, cfg) ==
    IF cfg.hashDim = HashDim THEN TokenHashes[token]
    ELSE Remainder(Murmur32(token), cfg.hashDim)

\* vectorize(tokens): `vec[hash] += w` for each token in the band; a write
\* at an index that is not one of the array's does nothing
Vectorize(tokens, map, docs, cfg) ==
    LET N == IF docs > 1 THEN docs ELSE 1
        inBand == Weighted(tokens, map, docs, cfg)
        added == [k \in 1..Len(inBand) |->
                    [hash |-> HashOf(inBand[k], cfg), w |-> WeightOf(inBand[k], map, N, cfg)]]
        written == SelectSeq(added, LAMBDA a : a.hash \in 0..(cfg.hashDim - 1))
    IN [j \in {written[k].hash : k \in 1..Len(written)} |->
            LET here == SelectSeq(written, LAMBDA a : a.hash = j)
            IN WSum([k \in 1..Len(here) |-> here[k].w])]

\* Math.random(): the model draws one of two sequences of values
RandomSeeds == {0, 1}

(***************************************************************************)
(* project.  R is a flat array: R[j * projDim + i] is row j, column i.     *)
(***************************************************************************)
\* State.R after `Math.random() > 0.5 ? 1 : -1` for each element
RDraws(cfg) ==
    { [idx \in 1..(cfg.hashDim * cfg.projDim) |-> IF (idx + seed) % 2 = 0 THEN 1 ELSE -1] :
        seed \in RandomSeeds }

\* a variant: the matrix is drawn at every call
RDrawnAgain(matrix, cfg) == RDraws(cfg)

\* the R that project computes with: the one in place, or a fresh one
RFor(matrix, cfg) == IF matrix = Null THEN RDraws(cfg) ELSE {matrix}

\* vec[j] * R[j * projDim + i] summed over the indexes j of a set; an
\* element 0 of vec adds nothing
RECURSIVE ProjectedOver(_, _, _, _, _)
ProjectedOver(indexes, vec, matrix, i, cfg) ==
    IF indexes = {} THEN Weight(0, Num(1))
    ELSE LET j == CHOOSE x \in indexes : \A y \in indexes : x <= y
             term == IF matrix[j * cfg.projDim + i] = 1 THEN vec[j] ELSE WNeg(vec[j])
         IN WAdd(term, ProjectedOver(indexes \ {j}, vec, matrix, i, cfg))

\* project(vec), for the R in place after `if (!State.R)`
Project(vec, matrix, cfg) ==
    [i \in 1..cfg.projDim |-> ProjectedOver(DOMAIN vec, vec, matrix, i, cfg)]

(***************************************************************************)
(* The scaled vector.  The scaler's running mean and variance are          *)
(* floating-point computations that the model does not carry out: their    *)
(* result for a record, the argument of onlinePCA, is one of the vectors   *)
(* below.  The vectors have one component (projDim is 1), so that the norm *)
(* of a column of W is the square root of a square.                        *)
(***************************************************************************)
ScaledValues == {Num(0), Num(1), Num(-5), Infinity, NaN}
ScaledInputs == {<<x>> : x \in ScaledValues}

\* scale() of a component whose deviation is at most 1e-6
DegenerateInputs == {<<Num(0)>>}

\* State.pca.W after `Math.random() - 0.5` for each element
WeightDraws(cfg) ==
    { [idx \in 1..(cfg.projDim * cfg.pcaDim) |->
            IF (idx + seed) % 2 = 0 THEN Q(-1, 2) ELSE Q(1, 4)] : seed \in RandomSeeds }

\* State.kmeans.centers after `Math.random() * 2 - 1` for each element:
\* all centers in one place, or every other one
CenterDraws(cfg) ==
    { [idx \in 1..(cfg.kClusters * cfg.pcaDim) |->
            IF seed = 0 \/ ((idx - 1) \div cfg.pcaDim) % 2 = 0 THEN Num(-1) ELSE Q(1, 2)] :
        seed \in RandomSeeds }

(***************************************************************************)
(* onlinePCA.  W is a flat array: W[j * pcaDim + i] is row j, column i.    *)
(***************************************************************************)
\* W[j * pcaDim + i] for the 1-based row j and column i
At(W, j, i, cfg) == W[(j - 1) * cfg.pcaDim + i]

\* y[i] = sum over j of pvec[j] * W[j * pcaDim + i]
Embedding(pvec, W, cfg) ==
    [i \in 1..cfg.pcaDim |->
        FSum([j \in 1..cfg.projDim |-> FMul(pvec[j], At(W, j, i, cfg))])]

\* Oja's rule for column i, the columns before it already updated
OjaColumn(W, pvec, y, i, lr, cfg) ==
    [idx \in 1..Len(W) |->
        LET j == (idx - 1) \div cfg.pcaDim + 1
            residual == FSub(pvec[j],
                             FSum([k \in 1..(i - 1) |-> FMul(y[k], At(W, j, k, cfg))]))
        IN IF ((idx - 1) % cfg.pcaDim) + 1 = i
           THEN FAdd(W[idx], FMul(FMul(lr, y[i]), residual))
           ELSE W[idx]]

RECURSIVE Oja(_, _, _, _, _, _)
Oja(W, pvec, y, i, lr, cfg) ==
    IF i > cfg.pcaDim THEN W
    ELSE Oja(OjaColumn(W, pvec, y, i, lr, cfg), pvec, y, i + 1, lr, cfg)

\* each column divided by its norm, when the norm is above 1e-6
Normalized(W, cfg) ==
    [idx \in 1..Len(W) |->
        LET i == ((idx - 1) % cfg.pcaDim) + 1
            norm == MathSqrt(FSum([j \in 1..cfg.projDim |->
                                    FMul(At(W, j, i, cfg), At(W, j, i, cfg))]))
        IN IF FGreater(norm, Q(1, 1000000)) THEN FDiv(W[idx], norm) ELSE W[idx]]

\* a variant: the weights survive an embedding that is not finite
OnlinePCAKeepingWeights(pvec, W, lr, cfg) ==
    LET y == Embedding(pvec, W, cfg)
    IN IF \E i \in 1..cfg.pcaDim : ~IsFinite(y[i])
       THEN [W |-> W, y |-> [i \in 1..cfg.pcaDim |-> NaN]]
       ELSE [W |-> Normalized(Oja(W, pvec, y, 1, lr, cfg), cfg), y |-> y]

\* onlinePCA(pvec), for the W in place after `if (!State.pca.W)`
OnlinePCA(pvec, W, lr, cfg) ==
    LET y == Embedding(pvec, W, cfg)
    IN IF \E i \in 1..cfg.pcaDim : ~IsFinite(y[i])
       THEN [W |-> Null, y |-> [i \in 1..cfg.pcaDim |-> NaN]]
       ELSE [W |-> Normalized(Oja(W, pvec, y, 1, lr, cfg), cfg), y |-> y]

\* the W that onlinePCA computes with: the one in place, or a fresh one
WeightsFor(W, cfg) == IF W = Null THEN WeightDraws(cfg) ELSE {W}

(***************************************************************************)
(* onlineKMeans.  centers is a flat array: centers[i * pcaDim + j] is      *)
(* component j of centre i.  A write to a typed array at an index that is  *)
(* not one of its elements does nothing.                                   *)
(***************************************************************************)
\* d for centre i (0-based)
SquaredDistance(y, centers, i, cfg) ==
    FSum([j \in 1..cfg.pcaDim |->
            LET diff == FSub(y[j], centers[i * cfg.pcaDim + j])
            IN FMul(diff, diff)])

\* the loop over the centres from i on: `if (d < minD)`
RECURSIVE Nearest(_, _, _, _, _, _)
Nearest(y, centers, i, bestCluster, minD, cfg) ==
    IF i = cfg.kClusters THEN bestCluster
    ELSE LET d == SquaredDistance(y, centers, i, cfg)
         IN IF FLess(d, minD)
            THEN Nearest(y, centers, i + 1, i, d, cfg)
            ELSE Nearest(y, centers, i + 1, bestCluster, minD, cfg)

\* a variant: the chosen centre moves half of the way
OnlineKMeansHalfway(y, centers, counts, cfg) ==
    LET bestCluster == Nearest(y, centers, 0, -1, Infinity, cfg)
        counted == [i \in 1..Len(counts) |->
                        IF i - 1 = bestCluster THEN counts[i] + 1 ELSE counts[i]]
    IN [cluster |-> bestCluster,
        counts |-> counted,
        centers |->
            [idx \in 1..Len(centers) |->
                IF (idx - 1) \div cfg.pcaDim = bestCluster
                THEN FAdd(centers[idx],
                          FMul(Q(1, 2), FSub(y[((idx - 1) % cfg.pcaDim) + 1], centers[idx])))
                ELSE centers[idx]]]

\* onlineKMeans(y), for the centers in place after `if (!State.kmeans.centers)`
OnlineKMeans(y, centers, counts, cfg) ==
    LET bestCluster == Nearest(y, centers, 0, -1, Infinity, cfg)
        counted == [i \in 1..Len(counts) |->
                        IF i - 1 = bestCluster THEN counts[i] + 1 ELSE counts[i]]
    IN [cluster |-> bestCluster,
        counts |-> counted,
        centers |->
            [idx \in 1..Len(centers) |->
                IF (idx - 1) \div cfg.pcaDim = bestCluster
                THEN FAdd(centers[idx],
                          FMul(Q(1, counted[bestCluster + 1]),
                               FSub(y[((idx - 1) % cfg.pcaDim) + 1], centers[idx])))
                ELSE centers[idx]]]

\* the centers that onlineKMeans computes with: those in place, or fresh ones
CentersFor(centers, cfg) == IF centers = Null THEN CenterDraws(cfg) ELSE {centers}

(***************************************************************************)
(* processQueue: one record of the batch                                   *)
(***************************************************************************)
\* the body of batch.forEach for one packet: the state after it, the point
\* pushed, and what the stages saw
ProcessPacket(st, packet, cfg, scaled, W, centers) ==
    LET docs == st.docCount + 1
        tokens == Tokenize(packet)
        updated == UpdateVocab(st.vocab, st.tombstones, tokens, cfg.vocabSize)
        embedded == OnlinePCA(scaled, W, st.pca.lr, cfg)
        assigned == OnlineKMeans(embedded.y, centers, st.kmeans.counts, cfg)
    IN [st |->
            [vocab |-> updated.vocab,
             tombstones |-> updated.tombstones,
             docCount |-> docs,
             pca |-> [st.pca EXCEPT !.W = embedded.W],
             kmeans |-> [centers |-> assigned.centers, counts |-> assigned.counts]],
        point |->
            [id |-> packet.requestId,
             url |-> packet.url,
             ts |-> packet.timeStamp,
             y |-> embedded.y,
             cluster |-> assigned.cluster,
             size |-> packet.requestHeadersSize + OrZero(packet, "responseHeadersSize"),
             method |-> packet.method,
             type |-> packet.type,
             status |-> packet.statusCode,
             diagnostics |->
                [tokens |-> tokens,
                 vocabSize |-> Len(updated.vocab),
                 tombstones |-> updated.tombstones]],
        saw |->
            [counted |-> updated.counted,
             vocab |-> updated.vocab,
             weighted |-> Weighted(tokens, updated.vocab, docs, cfg),
             vec |-> Vectorize(tokens, updated.vocab, docs, cfg),
             scaled |-> scaled,
             before |-> st.pca.W,
             W |-> W,
             after |-> embedded.W,
             centers |-> centers]]

\* the outcomes of one more packet, for every scaled vector and random draw;
\* an exception ends the forEach: the packets after it are not looked at
AfterPacket(run, packet, cfg, scaledSet) ==
    IF run.threw THEN {run}
    ELSE IF TokenizeThrows(packet)
    THEN {[run EXCEPT !.st.docCount = @ + 1, !.threw = TRUE]}
    ELSE { LET done == ProcessPacket(run.st, packet, cfg, scaled, W, centers)
           IN [st |-> done.st,
               points |-> Append(run.points, done.point),
               saw |-> Append(run.saw, done.saw),
               threw |-> FALSE] :
             scaled \in scaledSet,
             W \in WeightsFor(run.st.pca.W, cfg),
             centers \in CentersFor(run.st.kmeans.centers, cfg) }

\* batch.forEach
RECURSIVE ProcessBatch(_, _, _, _)
ProcessBatch(runs, batch, cfg, scaledSet) ==
    IF batch = <<>> THEN runs
    ELSE ProcessBatch(UNION {AfterPacket(run, Head(batch), cfg, scaledSet) : run \in runs},
                      Tail(batch), cfg, scaledSet)

\* a variant: the batch is taken off the tail of the queue
SpliceFromEnd(queue, batchSize) ==
    [batch |-> SubSeq(queue, Len(queue) - batchSize + 1, Len(queue)),
     rest |-> SubSeq(queue, 1, Len(queue) - batchSize)]

\* a variant: the queue is emptied
SpliceWhole(queue, batchSize) ==
    [batch |-> SubSeq(queue, 1, batchSize), rest |-> <<>>]

\* State.pktQueue.splice(0, batchSize): what is removed, and what is left
Splice(queue, batchSize) ==
    [batch |-> SubSeq(queue, 1, batchSize),
     rest |-> SubSeq(queue, batchSize + 1, Len(queue))]

\* a variant: every record queued is taken
BatchSizeUnbounded(queue, cfg) == Len(queue)

\* Math.min(State.pktQueue.length, VEC_CONFIG.batch)
BatchSize(queue, cfg) == Min(Len(queue), cfg.batch)

(***************************************************************************)
(* applySettings                                                           *)
(***************************************************************************)
\* the values of a settings object's fields, by their typeof
JsNumber(x) == [typeof |-> "number", value |-> x]
JsString(x) == [typeof |-> "string", value |-> x]

\* the two lines for minDfRatio and maxDfRatio
ApplyBand(cfg, s) ==
    [cfg EXCEPT
        !.minDfRatio =
            IF Has(s, "minDfRatio") /\ s.minDfRatio.typeof = "number"
            THEN MathMax(Num(0), MathMin(Num(1), s.minDfRatio.value))
            ELSE @,
        !.maxDfRatio =
            IF Has(s, "maxDfRatio") /\ s.maxDfRatio.typeof = "number"
            THEN MathMax(Num(0), MathMin(Num(1), s.maxDfRatio.value))
            ELSE @]

\* a variant: a settings object is applied only when every field it carries
\* is valid
AppliedWhole(cfg, s) ==
    IF /\ Has(s, "vocabSize") => s.vocabSize.typeof = "number" /\ s.vocabSize.value >= MinVocabSize
       /\ Has(s, "weighting") => s.weighting.value \in {"count", "tfidf"}
       /\ Has(s, "minDfRatio") => s.minDfRatio.typeof = "number"
       /\ Has(s, "maxDfRatio") => s.maxDfRatio.typeof = "number"
    THEN ApplyBand(
            [cfg EXCEPT
                !.vocabSize = IF Has(s, "vocabSize") THEN s.vocabSize.value ELSE @,
                !.weighting = IF Has(s, "weighting") THEN s.weighting.value ELSE @],
            s)
    ELSE cfg

\* applySettings(s) on VEC_CONFIG; `s.vocabSize|0` of an integer that fits
\* 32 bits is that integer
Applied(cfg, s) ==
    ApplyBand(
        [cfg EXCEPT
            !.vocabSize =
                IF /\ Has(s, "vocabSize")
                   /\ s.vocabSize.typeof = "number"
                   /\ s.vocabSize.value >= MinVocabSize
                THEN s.vocabSize.value
                ELSE @,
            !.weighting =
                IF /\ Has(s, "weighting")
                   /\ s.weighting.typeof = "string"
                   /\ s.weighting.value \in {"count", "tfidf"}
                THEN s.weighting.value
                ELSE @],
        s)

\* the settings objects written to storage: the empty object, the form of
\* the 3D view filled in (twice), its reset, and an object of odd values
SettingsInputs ==
    { <<>>,
      [weighting |-> JsString("tfidf"), minDfRatio |-> JsNumber(Q(4, 5)),
       maxDfRatio |-> JsNumber(Q(1, 5)), vocabSize |-> JsNumber(MinVocabSize)],
      [weighting |-> JsString("count"), minDfRatio |-> JsNumber(Num(0)),
       maxDfRatio |-> JsNumber(Num(1)), vocabSize |-> JsNumber(DefaultVocabSize)],
      [weighting |-> JsString("bm25"), minDfRatio |-> JsNumber(Num(-1)),
       maxDfRatio |-> JsString("0.5"), vocabSize |-> JsNumber(MinVocabSize - 1)] }

(***************************************************************************)
(* The emission of a tick's points.                                        *)
(***************************************************************************)
\* a variant: a tick emits when a full period has passed
EmitsAtPeriod(t, emittedAt, cfg) == ~FLess(Num(t - emittedAt), Q(1000, cfg.emitHz))

\* now - State.lastEmit > 1000 / VEC_CONFIG.emitHz
Emits(t, emittedAt, cfg) == FGreater(Num(t - emittedAt), Q(1000, cfg.emitHz))

\* chrome.storage.local.get({ vectorizedPackets: [] }, callback), as issued
StorageGet(tickPoints) == [points |-> tickPoints, answered |-> FALSE, result |-> <<>>]

\* a variant: the list is cut at its end
RetainedOldest(allPoints, max) ==
    IF Len(allPoints) > max THEN SubSeq(allPoints, 1, max) ELSE allPoints

\* if (allPoints.length > 2500) allPoints.splice(0, allPoints.length - 2500)
Retained(allPoints, max) ==
    IF Len(allPoints) > max
    THEN SubSeq(allPoints, Len(allPoints) - max + 1, Len(allPoints))
    ELSE allPoints

\* the list the callback of storage.get writes
Written(result, tickPoints) == Retained(result \o tickPoints, MaxRetained)

\* the first storage.get the browser has not read the value for, 0 if none
Unanswered ==
    IF \E i \in 1..Len(callbacks) : ~callbacks[i].answered
    THEN CHOOSE i \in 1..Len(callbacks) :
            /\ ~callbacks[i].answered
            /\ \A j \in 1..(i - 1) : callbacks[j].answered
    ELSE 0

\* the steps of the clock between two events
ClockSteps == {100, 101}
\* the clock stops here
MaxClock == LoadTime + 201

(***************************************************************************)
(* The vectorizer's calls.                                                 *)
(***************************************************************************)
VecInit ==
    /\ VEC_CONFIG =
        [vocabSize |-> DefaultVocabSize,
         hashDim |-> HashDim,
         pcaDim |-> PcaDim,
         projDim |-> 1,
         kClusters |-> KClusters,
         batch |-> Batch,
         emitHz |-> EmitHz,
         weighting |-> "count",
         minDfRatio |-> Num(0),
         maxDfRatio |-> Num(1)]
    /\ pktQueue = <<>>
    /\ vocab = <<>>
    /\ tombstones = 0
    /\ docCount = 0
    /\ pca = [W |-> Null, lr |-> Q(1, 20)]
    /\ kmeans = [centers |-> Null, counts |-> [i \in 1..KClusters |-> 0]]
    /\ points = <<>>
    /\ R = Null
    /\ trace = [op |-> "load", enqueued |-> <<>>, processed |-> <<>>, saw |-> <<>>,
                assigned |-> <<>>]
    /\ clock = LoadTime
    /\ lastEmit = 0
    /\ callbacks = <<>>
    /\ stored = <<>>
    /\ emitted = <<>>
    /\ allPackets = <<>>

\* queuePacket(packet), for the next request the browser completes
QueuePacket(packet) ==
    LET id == Len(trace.enqueued) + 1
    IN /\ pktQueue' = Append(pktQueue,
                             packet @@ [requestId |-> id, timeStamp |-> TimeStampOf(id)])
       /\ trace' = [op |-> "queuePacket", enqueued |-> Append(trace.enqueued, id),
                    processed |-> trace.processed, saw |-> <<>>,
                         assigned |-> trace.assigned]
       /\ UNCHANGED <<VEC_CONFIG, vocab, tombstones, docCount, pca, kmeans, points, R>>
       /\ UNCHANGED emitVars
       /\ UNCHANGED <<aggVars, adjVars>>

\* processQueue(); an exception of tokenize leaves it from within the
\* forEach, with the batch spliced off and its points dropped
ProcessQueueOver(scaledSet) ==
    IF Len(pktQueue) = 0
    THEN /\ points' = <<>>
         /\ trace' = [trace EXCEPT !.op = "processQueue", !.saw = <<>>]
         /\ UNCHANGED <<VEC_CONFIG, pktQueue, vocab, tombstones, docCount, pca, kmeans, R>>
         /\ UNCHANGED emitVars
         /\ UNCHANGED <<aggVars, adjVars>>
    ELSE LET spliced == Splice(pktQueue, BatchSize(pktQueue, VEC_CONFIG))
             start == [st |-> [vocab |-> vocab, tombstones |-> tombstones,
                               docCount |-> docCount, pca |-> pca, kmeans |-> kmeans],
                       points |-> <<>>,
                       saw |-> <<>>,
                       threw |-> FALSE]
         IN \E run \in ProcessBatch({start}, spliced.batch, VEC_CONFIG, scaledSet) :
                /\ pktQueue' = spliced.rest
                /\ IF run.saw = <<>> THEN R' = R ELSE R' \in RFor(R, VEC_CONFIG)
                /\ vocab' = run.st.vocab
                /\ tombstones' = run.st.tombstones
                /\ docCount' = run.st.docCount
                /\ pca' = run.st.pca
                /\ kmeans' = run.st.kmeans
                /\ points' = IF run.threw THEN <<>> ELSE run.points
                /\ trace' = [op |-> IF run.threw THEN "processQueue threw" ELSE "processQueue",
                             enqueued |-> trace.enqueued,
                             processed |-> trace.processed
                                \o [k \in 1..Len(run.points) |-> spliced.batch[k].requestId],
                             saw |-> [k \in 1..Len(run.saw) |->
                                        run.saw[k] @@
                                        [pvec |-> Project(run.saw[k].vec, R', VEC_CONFIG)]],
                             assigned |-> trace.assigned
                                \o [k \in 1..Len(run.points) |->
                                        [cluster |-> run.points[k].cluster,
                                         y |-> run.points[k].y]]]
                /\ IF ~run.threw /\ Emits(clock, lastEmit, VEC_CONFIG)
                   THEN /\ callbacks' = Append(callbacks, StorageGet(run.points))
                        /\ lastEmit' = clock
                        /\ emitted' = Append(emitted, clock)
                   ELSE UNCHANGED <<callbacks, lastEmit, emitted>>
                /\ UNCHANGED <<VEC_CONFIG, clock, stored, allPackets>>
                /\ UNCHANGED <<aggVars, adjVars>>

\* the timer's tick
ProcessQueue == ProcessQueueOver(ScaledInputs)

\* the tick on records whose scaled vector is zero
ProcessQueueDegenerate == ProcessQueueOver(DegenerateInputs)

\* applySettings(s)
ApplySettings(s) ==
    /\ VEC_CONFIG' = Applied(VEC_CONFIG, s)
    /\ trace' = [trace EXCEPT !.op = "applySettings", !.saw = <<>>]
    /\ UNCHANGED <<pktQueue, vocab, tombstones, docCount, pca, kmeans, points, R>>
    /\ UNCHANGED emitVars
    /\ UNCHANGED <<aggVars, adjVars>>

\* the onCompleted listener, for the first request the browser completes:
\* queuePacket(packetInfo), then aggregator.addPacket(packetInfo)
OnCompleted(details) ==
    IF ListenerThrows(details)
    THEN /\ trace' = [trace EXCEPT !.op = "onCompleted threw", !.saw = <<>>]
         /\ UNCHANGED <<VEC_CONFIG, pktQueue, vocab, tombstones, docCount, pca, kmeans, points, R>>
         /\ UNCHANGED emitVars
         /\ UNCHANGED <<aggVars, adjVars>>
    ELSE LET id == Len(trace.enqueued) + 1
             packet == Completed(details) @@ [requestId |-> id, timeStamp |-> TimeStampOf(id)]
         IN /\ pktQueue' = Append(pktQueue, packet)
            /\ trace' = [op |-> "queuePacket", enqueued |-> Append(trace.enqueued, id),
                         processed |-> trace.processed, saw |-> <<>>,
                         assigned |-> trace.assigned]
            /\ IF HasUsableTab(packet)
               THEN /\ tabs' = AddToPlanet(tabs, packet, now)
                    /\ UNCHANGED interstellar
               ELSE /\ interstellar' =
                        AddInterstellar(interstellar, ExtractTaxonomy(packet.url), packet, now)
                    /\ UNCHANGED tabs
            /\ last' = [op |-> "addPacket", packet |-> packet]
            /\ UNCHANGED <<VEC_CONFIG, vocab, tombstones, docCount, pca, kmeans, points, R>>
            /\ UNCHANGED emitVars
            /\ UNCHANGED <<now, config, snap, pruned>>
            /\ UNCHANGED adjVars

\* the browser reads the value for the oldest storage.get not yet answered
StorageRead ==
    /\ Unanswered # 0
    /\ callbacks' = [callbacks EXCEPT ![Unanswered] =
                        [@ EXCEPT !.answered = TRUE, !.result = stored]]
    /\ trace' = [trace EXCEPT !.op = "storageRead", !.saw = <<>>]
    /\ UNCHANGED <<VEC_CONFIG, pktQueue, vocab, tombstones, docCount, pca, kmeans, points, R>>
    /\ UNCHANGED <<clock, lastEmit, stored, emitted, allPackets>>
    /\ UNCHANGED <<aggVars, adjVars>>

\* the callback of the oldest storage.get runs: concat, cut, storage.set
GetCallback ==
    /\ callbacks # <<>>
    /\ Head(callbacks).answered
    /\ stored' = Written(Head(callbacks).result, Head(callbacks).points)
    /\ callbacks' = Tail(callbacks)
    /\ trace' = [trace EXCEPT !.op = "getCallback", !.saw = <<>>]
    /\ UNCHANGED <<VEC_CONFIG, pktQueue, vocab, tombstones, docCount, pca, kmeans, points, R>>
    /\ UNCHANGED <<clock, lastEmit, emitted, allPackets>>
    /\ UNCHANGED <<aggVars, adjVars>>

\* time passes
Advance(step) ==
    /\ clock + step <= MaxClock
    /\ clock' = clock + step
    /\ trace' = [trace EXCEPT !.op = "advance", !.saw = <<>>]
    /\ UNCHANGED <<VEC_CONFIG, pktQueue, vocab, tombstones, docCount, pca, kmeans, points, R>>
    /\ UNCHANGED <<lastEmit, callbacks, stored, emitted, allPackets>>
    /\ UNCHANGED <<aggVars, adjVars>>

(***************************************************************************)
(* The 3D view.  It reads vectorizedPackets from chrome.storage.local.  A  *)
(* value passes through the storage as a copy: a structured clone keeps a  *)
(* NaN, a JSON conversion turns it into null.  The source does not say     *)
(* which one the browser makes, so the view may receive either.            *)
(***************************************************************************)
\* null
JsNull == [null |-> TRUE]

\* the points as the storage hands them to a page
Conveyed(list) ==
    { list,
      [k \in 1..Len(list) |->
        [list[k] EXCEPT !.y = [i \in 1..Len(@) |->
                                IF IsFinite(@[i]) THEN @[i] ELSE JsNull]]] }

\* the global isFinite(v): the argument is converted with Number(v), and
\* Number(null) is 0
GlobalIsFinite(v) == IF v = JsNull THEN TRUE ELSE IsFinite(v)

\* a variant: Number.isFinite(v), which converts nothing
NumberIsFinite(v) == IF v = JsNull THEN FALSE ELSE IsFinite(v)

\* a variant of rebuildGeometry's filter
ValidByNumber(data) ==
    SelectSeq(data, LAMBDA p : \A i \in 1..Len(p.y) : NumberIsFinite(p.y[i]))

\* rebuildGeometry: data.filter(p => p && p.y && p.y.every && p.y.every(isFinite))
Valid(data) ==
    SelectSeq(data, LAMBDA p : \A i \in 1..Len(p.y) : GlobalIsFinite(p.y[i]))

\* the storage.onChanged listener of the view: updatePoints(newValue)
UpdatePoints ==
    /\ \E newValue \in Conveyed(stored) : allPackets' = newValue
    /\ trace' = [trace EXCEPT !.op = "updatePoints", !.saw = <<>>]
    /\ UNCHANGED <<VEC_CONFIG, pktQueue, vocab, tombstones, docCount, pca, kmeans, points, R>>
    /\ UNCHANGED <<clock, lastEmit, callbacks, stored, emitted>>
    /\ UNCHANGED <<aggVars, adjVars>>

(***************************************************************************)
(* The hardware adjudicator's frame monitor.                               *)
(***************************************************************************)
\* the time between two frames, in ms: 50 and 20 frames per second
FrameDeltas == {20, 50}

\* startMonitoring's argument: a callback, or nothing
FallbackInputs == {"callback", "undefined"}

\* the average evaluateHealth computes
AverageFps(history) == FDiv(FSum(history), Num(Len(history)))

\* a variant: the counter keeps its value after the callback
EvaluateHealthNoReset(adj) ==
    IF Len(adj.fpsHistory) < MinSamples
    THEN [adj |-> adj, evaluation |-> [samples |-> Len(adj.fpsHistory),
                                       counter |-> adj.consecutiveLowFps, fired |-> FALSE]]
    ELSE LET avgFps == AverageFps(adj.fpsHistory)
             counted == IF FLess(avgFps, Num(LowFpsThreshold))
                        THEN adj.consecutiveLowFps + 1
                        ELSE 0
             fires == counted > LowFpsLimit /\ adj.onFallback = "callback"
         IN [adj |-> [adj EXCEPT !.consecutiveLowFps = counted],
             evaluation |-> [samples |-> Len(adj.fpsHistory), avgFps |-> avgFps,
                             counter |-> counted, fired |-> fires]]

\* evaluateHealth(): the adjudicator it leaves, and what it saw (samples,
\* the average unless it returned at once, the counter at the test `> 3`,
\* whether onFallback was called)
EvaluateHealth(adj) ==
    IF Len(adj.fpsHistory) < MinSamples
    THEN [adj |-> adj, evaluation |-> [samples |-> Len(adj.fpsHistory),
                                       counter |-> adj.consecutiveLowFps, fired |-> FALSE]]
    ELSE LET avgFps == AverageFps(adj.fpsHistory)
             counted == IF FLess(avgFps, Num(LowFpsThreshold))
                        THEN adj.consecutiveLowFps + 1
                        ELSE 0
             fires == counted > LowFpsLimit /\ adj.onFallback = "callback"
         IN [adj |-> [adj EXCEPT !.consecutiveLowFps = IF fires THEN 0 ELSE counted],
             evaluation |-> [samples |-> Len(adj.fpsHistory), avgFps |-> avgFps,
                             counter |-> counted, fired |-> fires]]

\* the lines of monitorLoop up to the check: performance.now() is delta
\* after the last frame
Framed(adj, delta) ==
    LET pushed == Append(adj.fpsHistory, Q(1000, delta))
    IN [adj EXCEPT
            !.lastFrameTime = @ + delta,
            !.fpsHistory = IF Len(pushed) > FpsHistoryMax THEN Tail(pushed) ELSE pushed]

\* the last evaluations, the newest last: as many as a fallback looks back on
Remembered(evals) ==
    IF Len(evals) > LowFpsLimit + 1 THEN Tail(evals) ELSE evals

\* monitorLoop(), with `Math.random() < 0.05` coming out as `check`
MonitorLoopFrom(adj, delta, check) ==
    /\ health.frames < MaxFrames
    /\ IF check
       THEN LET evaluated == EvaluateHealth(Framed(adj, delta))
            IN /\ adjudicator' = evaluated.adj
               /\ health' = [op |-> "evaluated",
                             frames |-> health.frames + 1,
                             evals |-> Remembered(Append(health.evals, evaluated.evaluation)),
                             fallbacks |-> health.fallbacks
                                            + (IF evaluated.evaluation.fired THEN 1 ELSE 0)]
       ELSE /\ adjudicator' = Framed(adj, delta)
            /\ health' = [health EXCEPT !.op = "frame", !.frames = @ + 1]
    /\ UNCHANGED <<aggVars, vecVars>>

\* startMonitoring(onFallback): the first frame
StartMonitoring(onFallback, delta, check) ==
    /\ health.op = "new"
    /\ MonitorLoopFrom([adjudicator EXCEPT !.onFallback = onFallback], delta, check)

\* requestAnimationFrame's call of monitorLoop
MonitorLoop(delta, check) ==
    /\ health.op # "new"
    /\ MonitorLoopFrom(adjudicator, delta, check)

AdjInit ==
    /\ adjudicator = [fpsHistory |-> <<>>, lastFrameTime |-> 0,
                      consecutiveLowFps |-> 0, onFallback |-> "undefined"]
    /\ health = [op |-> "new", frames |-> 0, evals |-> <<>>, fallbacks |-> 0]

NextMonitor ==
    \/ \E onFallback \in FallbackInputs, delta \in FrameDeltas, check \in BOOLEAN :
            StartMonitoring(onFallback, delta, check)
    \/ \E delta \in FrameDeltas, check \in BOOLEAN : MonitorLoop(delta, check)

(***************************************************************************)
(* The aggregator's calls.                                                 *)
(***************************************************************************)
\* the records the tree counts: every planet's and asteroid's frequency
TotalFrequency ==
    SumSeq([i \in 1..Len(tabs) |-> tabs[i].node.metrics.frequency])
    + SumSeq([i \in 1..Len(interstellar) |-> interstellar[i].node.metrics.frequency])

Init ==
    /\ now = 0
    /\ tabs = <<>>
    /\ interstellar = <<>>
    /\ config = [maxSatellitesPerPlanet |-> DefaultMaxSatellites]
    /\ snap = NoSnap
    /\ last = [op |-> "new"]
    /\ pruned = {}
    /\ VecInit
    /\ AdjInit

\* time passes
Tick ==
    /\ now < MaxTime
    /\ now' = now + 1
    /\ last' = [op |-> "tick"]
    /\ UNCHANGED <<tabs, interstellar, config, snap, pruned>>
    /\ UNCHANGED <<vecVars, adjVars>>

SetConfig(newConfig) ==
    /\ config' = ObjectAssign(config, newConfig)
    /\ last' = [op |-> "setConfig"]
    /\ UNCHANGED <<now, tabs, interstellar, snap, pruned>>
    /\ UNCHANGED <<vecVars, adjVars>>

AddPacket(packet) ==
    /\ IF HasUsableTab(packet)
       THEN /\ tabs' = AddToPlanet(tabs, packet, now)
            /\ UNCHANGED interstellar
       ELSE /\ interstellar' = AddInterstellar(interstellar, ExtractTaxonomy(packet.url), packet, now)
            /\ UNCHANGED tabs
    /\ last' = [op |-> "addPacket", packet |-> packet]
    /\ UNCHANGED <<now, config, snap, pruned>>
    /\ UNCHANGED <<vecVars, adjVars>>

\* addPacket of a tab's record while the clock moves on: Date.now() in
\* addSatellite is one millisecond after Date.now() in the planet's
\* updateNodeMetrics
AddPacketAcross(packet) ==
    /\ now < MaxTime
    /\ HasUsableTab(packet)
    /\ tabs' = AddToPlanetAt(tabs, packet, now, now + 1)
    /\ now' = now + 1
    /\ last' = [op |-> "addPacket", packet |-> packet]
    /\ UNCHANGED <<interstellar, config, snap, pruned>>
    /\ UNCHANGED <<vecVars, adjVars>>

\* prune()
PruneCall ==
    /\ tabs' = PruneTabs(tabs, now - WindowDurationMs)
    /\ interstellar' = PruneInterstellar(interstellar, now - WindowDurationMs)
    /\ pruned' = pruned \cup {tabs[i].key : i \in {j \in 1..Len(tabs) : ~MapHas(tabs', tabs[j].key)}}
    /\ UNCHANGED <<now, config>>
    /\ UNCHANGED <<vecVars, adjVars>>

Prune ==
    /\ PruneCall
    /\ snap' = Detach(snap, tabs, tabs')
    /\ last' = [op |-> "prune", before |-> tabs, asteroids |-> interstellar]

\* getState(): this.prune(), then the snapshot of what is left
GetStateCall(returned) ==
    /\ PruneCall
    /\ returned = StateOf(tabs', config.maxSatellitesPerPlanet, WindowDurationMs, now)

\* the history of a call of getState
GetStateSeen(returned) ==
    last' = [op |-> "getState", before |-> tabs, asteroids |-> interstellar,
             returned |-> View(returned, tabs')]

\* getState() by a caller that keeps the object it gets
GetState ==
    \E returned \in {StateOf(PruneTabs(tabs, now - WindowDurationMs),
                             config.maxSatellitesPerPlanet, WindowDurationMs, now)} :
        /\ GetStateCall(returned)
        /\ snap' = returned
        /\ GetStateSeen(returned)

\* The background page's timer: getState() and chrome.storage.local.set of
\* the result, which stores a copy; the returned object is dropped.
Interval ==
    \E returned \in {StateOf(PruneTabs(tabs, now - WindowDurationMs),
                             config.maxSatellitesPerPlanet, WindowDurationMs, now)} :
        /\ GetStateCall(returned)
        /\ snap' = NoSnap
        /\ GetStateSeen(returned)

(***************************************************************************)
(* The aggregator as the background page drives it: records of any tab and *)
(* of background traffic, the timer, the slider, the clock.                *)
(***************************************************************************)
Next ==
    \/ Tick
    \/ \E newConfig \in ConfigInputs : SetConfig(newConfig)
    \/ \E packet \in Packets : TotalFrequency < MaxPackets /\ AddPacket(packet)
    \/ Interval

Spec == Init /\ [][Next]_vars

\* the frame monitor alone
SpecMonitor == Init /\ [][NextMonitor]_vars

(***************************************************************************)
(* One tab with many hosts, to fill a planet beyond its cap.               *)
(***************************************************************************)
\* addPacket is not called while the planet already counts this many records
MaxTabPackets == 3

TabHosts == {"a.com", "b.com", "c.com"}
TabPackets ==
    { [url |-> Url(h, "/"), type |-> "script", tabId |-> 1] @@ len :
        h \in TabHosts, len \in LengthInputs }
TabConfigInputs == {[maxSatellitesPerPlanet |-> m] : m \in {1, 2}}

NextCoagulate ==
    \/ Tick
    \/ \E newConfig \in TabConfigInputs : SetConfig(newConfig)
    \/ \E packet \in TabPackets : TotalFrequency < MaxTabPackets /\ AddPacket(packet)
    \/ Interval

SpecCoagulate == Init /\ [][NextCoagulate]_vars

(***************************************************************************)
(* Records that stop arriving: addPacket is called only while the clock can *)
(* still pass the window behind it; the background page's timer keeps       *)
(* calling getState() and time passes.                                      *)
(***************************************************************************)
NextExpire ==
    \/ Tick
    \/ \E packet \in Packets :
            /\ TotalFrequency < MaxPackets
            /\ now + WindowDurationMs < MaxTime
            /\ AddPacket(packet)
    \/ Interval

SpecExpire ==
    /\ Init /\ [][NextExpire]_vars
    /\ WF_vars(Tick)
    /\ WF_vars(Interval)

(***************************************************************************)
(* One tab, the clock read twice in a call, and a response whose           *)
(* content-length header is "-1": parseInt(...) || 0 is then -1.           *)
(***************************************************************************)
\* addPacket is not called while the planet already counts this many records
MaxClockPackets == 2

ClockHosts == {"a.com", "b.com"}
ClockLengths ==
    { [requestContentLength |-> 1, responseContentLength |-> 2],
      [requestContentLength |-> 0, responseContentLength |-> -1] }
ClockPackets ==
    { [url |-> Url(h, "/"), type |-> "script", tabId |-> 1] @@ len :
        h \in ClockHosts, len \in ClockLengths }

NextClock ==
    \/ Tick
    \/ \E packet \in ClockPackets : TotalFrequency < MaxClockPackets /\ AddPacket(packet)
    \/ \E packet \in ClockPackets : TotalFrequency < MaxClockPackets /\ AddPacketAcross(packet)
    \/ Interval

SpecClock == Init /\ [][NextClock]_vars

(***************************************************************************)
(* The end-to-end example: ten records of tab 1 to example.com with        *)
(* volumes 10, 20, ..., 100 and nine records of tab 1 to nine subdomains   *)
(* with volume 5 each, no time passing, the cap as constructed.            *)
(***************************************************************************)
ExampleHost == "example.com"
SubdomainOf(j) == "s" \o StringOf(j) \o ".example.com"

ExampleRecord(i) ==
    [url |-> Url(ExampleHost, "/"), type |-> "script", tabId |-> 1,
     requestContentLength |-> 0, responseContentLength |-> 10 * i]
SubdomainRecord(j) ==
    [url |-> Url(SubdomainOf(j), "/"), type |-> "script", tabId |-> 1,
     requestContentLength |-> 0, responseContentLength |-> 5]

\* how many records of each kind the tree has counted
ExampleSent ==
    IF MapHas(tabs, 1) /\ FindChild(MapGet(tabs, 1).children, ExampleHost) # 0
    THEN MapGet(tabs, 1).children[FindChild(MapGet(tabs, 1).children, ExampleHost)].metrics.frequency
    ELSE 0
SubdomainsSent ==
    IF MapHas(tabs, 1)
    THEN Len(SelectSeq(MapGet(tabs, 1).children, LAMBDA c : c.id # ExampleHost))
    ELSE 0

\* the records of each kind arrive in their order; the two kinds interleave
NextScenario ==
    \/ ExampleSent < 10 /\ AddPacket(ExampleRecord(ExampleSent + 1))
    \/ SubdomainsSent < 9 /\ AddPacket(SubdomainRecord(SubdomainsSent + 1))
    \/ Interval

SpecScenario == Init /\ [][NextScenario]_vars

(***************************************************************************)
(* A caller that keeps the object getState() returned, and writes to it.   *)
(* A write lands in the object the reference names: in the aggregator's    *)
(* tree when the tree still holds that object, in the snapshot otherwise.  *)
(***************************************************************************)
\* the values a caller writes
Scribble == 90 + 9
ScribbleLabel == "scribble"

\* snapshot.domains[i].metrics.volume = Scribble
WritePlanetVolume(i) ==
    LET p == snap.domains[i]
    IN IF p.ref = "value"
       THEN /\ snap' = [snap EXCEPT !.domains[i].node.metrics.volume = Scribble]
            /\ UNCHANGED tabs
       ELSE /\ tabs' = [tabs EXCEPT ![IndexOfKey(tabs, p.key)].node.metrics.volume = Scribble]
            /\ UNCHANGED snap

\* snapshot.domains[i].label = ScribbleLabel
WritePlanetLabel(i) ==
    LET p == snap.domains[i]
    IN CASE p.ref = "planet" ->
                /\ tabs' = [tabs EXCEPT ![IndexOfKey(tabs, p.key)].node.label = ScribbleLabel]
                /\ UNCHANGED snap
         [] p.ref = "copy" ->
                /\ snap' = [snap EXCEPT !.domains[i].label = ScribbleLabel]
                /\ UNCHANGED tabs
         [] OTHER ->
                /\ snap' = [snap EXCEPT !.domains[i].node.label = ScribbleLabel]
                /\ UNCHANGED tabs

\* snapshot.domains[i].children.pop()
PopChild(i) ==
    LET p == snap.domains[i]
        shorter(children) == SubSeq(children, 1, Len(children) - 1)
    IN /\ Len(ResolvePlanet(p, tabs).children) > 0
       /\ CASE p.ref = "planet" ->
                /\ tabs' = [tabs EXCEPT ![IndexOfKey(tabs, p.key)].node.children = shorter(@)]
                /\ UNCHANGED snap
            [] p.ref = "copy" ->
                /\ snap' = [snap EXCEPT !.domains[i].children = shorter(@)]
                /\ UNCHANGED tabs
            [] OTHER ->
                /\ snap' = [snap EXCEPT !.domains[i].node.children = shorter(@)]
                /\ UNCHANGED tabs

\* snapshot.domains[i].children[j].metrics.volume = Scribble
WriteChildVolume(i, j) ==
    LET p == snap.domains[i]
    IN /\ j \in 1..Len(ResolvePlanet(p, tabs).children)
       /\ CASE p.ref = "planet" ->
                /\ tabs' = [tabs EXCEPT ![IndexOfKey(tabs, p.key)].node.children[j].metrics.volume = Scribble]
                /\ UNCHANGED snap
            [] p.ref = "copy" /\ p.children[j].ref = "satellite" ->
                /\ tabs' = [tabs EXCEPT ![IndexOfKey(tabs, p.key)].node.children[
                                FindChild(MapGet(tabs, p.key).children, p.children[j].id)
                            ].metrics.volume = Scribble]
                /\ UNCHANGED snap
            [] p.ref = "copy" /\ p.children[j].ref = "value" ->
                /\ snap' = [snap EXCEPT !.domains[i].children[j].node.metrics.volume = Scribble]
                /\ UNCHANGED tabs
            [] OTHER ->
                /\ snap' = [snap EXCEPT !.domains[i].node.children[j].metrics.volume = Scribble]
                /\ UNCHANGED tabs

CallerWrites ==
    /\ snap # NoSnap
    /\ \E i \in 1..Len(snap.domains) :
        \/ WritePlanetVolume(i)
        \/ WritePlanetLabel(i)
        \/ PopChild(i)
        \/ \E j \in 1..2 : WriteChildVolume(i, j)
    /\ last' = [op |-> "caller"]
    /\ UNCHANGED <<now, interstellar, config, pruned>>
    /\ UNCHANGED <<vecVars, adjVars>>

CallerPackets ==
    { [url |-> u, type |-> "script", tabId |-> 1,
       requestContentLength |-> 1, responseContentLength |-> 2] : u \in Urls }

NextCaller ==
    \/ Tick
    \/ \E newConfig \in ConfigInputs : SetConfig(newConfig)
    \/ \E packet \in CallerPackets : TotalFrequency < MaxPackets /\ AddPacket(packet)
    \/ Prune
    \/ GetState
    \/ CallerWrites

SpecCaller == Init /\ [][NextCaller]_vars

(***************************************************************************)
(* The vectorizer's specifications.                                        *)
(***************************************************************************)
\* records of every kind and settings, the numbers degenerate
NextVectorizer ==
    \/ \E packet \in VecPackets : Len(trace.enqueued) < MaxQueued /\ QueuePacket(packet)
    \/ ProcessQueueDegenerate
    \/ \E s \in SettingsInputs : ApplySettings(s)

SpecVectorizer == Init /\ [][NextVectorizer]_vars

\* records of one kind, scaled vectors of every kind
EmbedPackets == {PacketInfo(BadUrl, "script", <<>>)}

NextEmbed ==
    \/ \E packet \in EmbedPackets : Len(trace.enqueued) < MaxQueued /\ QueuePacket(packet)
    \/ ProcessQueue

SpecEmbed == Init /\ [][NextEmbed]_vars

\* records of one kind, the clock and the browser's storage
MaxEmitQueued == 4

NextEmit ==
    \/ \E packet \in EmbedPackets :
            /\ Len(trace.enqueued) < MaxEmitQueued
            /\ Len(pktQueue) < Batch
            /\ QueuePacket(packet)
    \/ ProcessQueueDegenerate
    \/ StorageRead
    \/ GetCallback
    \/ \E step \in ClockSteps : Advance(step)

SpecEmit == Init /\ [][NextEmit]_vars

\* fewer records, where setInterval keeps firing the tick, the browser
\* answers every storage.get and runs its callback, and time passes
MaxFairQueued == 2

NextEmitFair ==
    \/ \E packet \in EmbedPackets :
            /\ Len(trace.enqueued) < MaxFairQueued
            /\ QueuePacket(packet)
    \/ ProcessQueueDegenerate
    \/ StorageRead
    \/ GetCallback
    \/ \E step \in ClockSteps : Advance(step)

\* weak fairness of the tick, which can make a step whenever the queue holds
\* a record: the queue is empty again and again, or the tick runs again and
\* again
TickFairness ==
    \/ []<>(pktQueue = <<>>)
    \/ []<><<ProcessQueueDegenerate>>_vars

SpecEmitFair ==
    /\ Init /\ [][NextEmitFair]_vars
    /\ TickFairness
    /\ WF_vars(StorageRead)
    /\ WF_vars(GetCallback)
    /\ WF_vars(\E step \in ClockSteps : Advance(step))

\* records of one kind, scaled vectors of every kind, the storage and the
\* 3D view
MaxViewQueued == 2

NextView ==
    \/ \E packet \in EmbedPackets : Len(trace.enqueued) < MaxViewQueued /\ QueuePacket(packet)
    \/ ProcessQueue
    \/ StorageRead
    \/ GetCallback
    \/ UpdatePoints
    \/ \E step \in ClockSteps : Advance(step)

SpecView == Init /\ [][NextView]_vars

\* records with colliding tokens, and the settings of the weights
MaxHashed == 2

WeightInputs ==
    { [weighting |-> JsString("tfidf")],
      [minDfRatio |-> JsNumber(Q(3, 5))],
      [minDfRatio |-> JsNumber(Num(0)), maxDfRatio |-> JsNumber(Q(1, 2))] }

NextHash ==
    \/ \E packet \in HashPackets :
            Len(trace.enqueued) < MaxHashed /\ QueuePacket(packet)
    \/ ProcessQueueDegenerate
    \/ \E s \in WeightInputs : ApplySettings(s)

SpecHash == Init /\ [][NextHash]_vars

\* records of one kind under every scaled vector, with the weighting set to
\* 'tfidf' at any moment
MaxProjected == 2

NextProject ==
    \/ \E packet \in EmbedPackets :
            Len(trace.enqueued) < MaxProjected /\ QueuePacket(packet)
    \/ ProcessQueue
    \/ ApplySettings([weighting |-> JsString("tfidf")])

SpecProject == Init /\ [][NextProject]_vars

\* the queue alone: records arrive at any moment and the tick keeps firing
MaxDrained == 3

NextDrain ==
    \/ \E packet \in EmbedPackets :
            Len(trace.enqueued) < MaxDrained /\ QueuePacket(packet)
    \/ ProcessQueueDegenerate

SpecDrain == Init /\ [][NextDrain]_vars /\ TickFairness

\* records handed to the exported queuePacket by a caller other than the
\* onCompleted listener: with responseHeaders, or without the field
MaxThrowQueued == 3

WithoutHeaders(packet) == [f \in DOMAIN packet \ {"responseHeaders"} |-> packet[f]]

DirectPackets == EmbedPackets \cup {WithoutHeaders(packet) : packet \in EmbedPackets}

NextDirect ==
    \/ \E packet \in DirectPackets :
            Len(trace.enqueued) < MaxThrowQueued /\ QueuePacket(packet)
    \/ ProcessQueueDegenerate

SpecDirect == Init /\ [][NextDirect]_vars

\* one completed request of every kind, and the tick that processes it
NextTokenize ==
    \/ \E details \in DetailsInputs : trace.enqueued = <<>> /\ OnCompleted(details)
    \/ ProcessQueueDegenerate

SpecTokenize == Init /\ [][NextTokenize]_vars

(***************************************************************************)
(* What the claims read.                                                   *)
(***************************************************************************)
\* a snapshot was just returned
Returned == last.op = "getState"

\* the planets of a tree or of a returned snapshot, as a set
PlanetsOf(map) == {map[i].node : i \in 1..Len(map)}
ReturnedPlanets == {last.returned.domains[i] : i \in 1..Len(last.returned.domains)}
ChildrenOf(planet) == {planet.children[i] : i \in 1..Len(planet.children)}

\* in a step: the record this step added, if it is a call of addPacket
Added == IF last'.op = "addPacket" THEN {last'.packet} ELSE {}

\* the decimal form of the tab ids the records name
DecimalOf == (1 :> "1") @@ (2 :> "2")

\* the hostname a record names, read off the record
HostOf(packet) ==
    IF "hostname" \in DOMAIN packet.url THEN packet.url.hostname ELSE "unknown"

\* requestContentLength + responseContentLength, missing values as 0
BytesOf(packet) ==
    (IF "requestContentLength" \in DOMAIN packet THEN packet.requestContentLength ELSE 0)
    + (IF "responseContentLength" \in DOMAIN packet THEN packet.responseContentLength ELSE 0)

\* the record names a tab: an id that is present and a positive integer
NamesTab(packet) == "tabId" \in DOMAIN packet /\ packet.tabId > 0

\* metrics after one more record of this size at this time
Counted(metrics, packet) ==
    [frequency |-> metrics.frequency + 1,
     volume |-> metrics.volume + BytesOf(packet),
     lastActive |-> now]

\* the metrics of a node that does not exist yet count nothing
MetricsOrNone(map, key) ==
    IF MapHas(map, key) THEN MapGet(map, key).metrics
    ELSE [frequency |-> 0, volume |-> 0, lastActive |-> now]

ChildMetricsOrNone(map, key, id) ==
    IF MapHas(map, key) /\ FindChild(MapGet(map, key).children, id) # 0
    THEN MapGet(map, key).children[FindChild(MapGet(map, key).children, id)].metrics
    ELSE [frequency |-> 0, volume |-> 0, lastActive |-> now]

\* the entries of a Map other than the one at key, in order
Others(map, key) == SelectSeq(map, LAMBDA e : e.key # key)
\* the children of a planet other than the one with this id, in order
OtherChildren(children, id) == SelectSeq(children, LAMBDA c : c.id # id)

(***************************************************************************)
(* C1.  Pruning boundary: a planet whose lastActive is                     *)
(* now - windowDurationMs - 1 when getState() is called is absent from the *)
(* returned state and from the tab map; one whose lastActive is now is     *)
(* present in the returned state.                                          *)
(***************************************************************************)
C1_PruningBoundary ==
    Returned =>
        \A i \in 1..Len(last.before) :
            LET planet == last.before[i].node
            IN /\ planet.metrics.lastActive = now - WindowDurationMs - 1 =>
                    /\ ~MapHas(tabs, last.before[i].key)
                    /\ \A p \in ReturnedPlanets : p.id # planet.id
               /\ planet.metrics.lastActive = now =>
                    \E p \in ReturnedPlanets : p.id = planet.id

C1_Witness ==
    /\ Returned
    /\ \E i \in 1..Len(last.before) :
            last.before[i].node.metrics.lastActive = now - WindowDurationMs - 1
    /\ \E i \in 1..Len(last.before) :
            last.before[i].node.metrics.lastActive = now

\* the sum of the volumes of a list of nodes
VolumeOf(nodes) == SumSeq([i \in 1..Len(nodes) |-> nodes[i].metrics.volume])

\* the ids of the satellites of a planet
ChildIds(planet) == {planet.children[i].id : i \in 1..Len(planet.children)}

(***************************************************************************)
(* C2.  Coagulation arithmetic: in the state getState() returns, a planet  *)
(* with more than maxSatellitesPerPlanet surviving satellites has exactly  *)
(* maxSatellitesPerPlanet + 1 children, the kept satellites and one        *)
(* synthetic node whose volume is the sum of the volumes of the satellites *)
(* it replaced; any other planet has its satellites and no synthetic node. *)
(* The children's volumes sum to the surviving satellites' volumes.        *)
(***************************************************************************)
C2_CoagulationArithmetic ==
    Returned =>
        /\ Len(last.returned.domains) = Len(tabs)
        /\ \A i \in 1..Len(tabs) :
            LET planet == tabs[i].node
                max == config.maxSatellitesPerPlanet
                shown == last.returned.domains[i]
                synthetic == shown.children[Len(shown.children)]
                kept == SubSeq(shown.children, 1, Len(shown.children) - 1)
                replaced == SelectSeq(planet.children,
                                LAMBDA c : \A k \in 1..Len(kept) : kept[k] # c)
            IN /\ shown.id = planet.id
               /\ IF Len(planet.children) > max
                  THEN /\ Len(shown.children) = max + 1
                       /\ \A k \in 1..Len(kept) : kept[k] \in ChildrenOf(planet)
                       /\ \A a, b \in 1..Len(kept) : kept[a] = kept[b] => a = b
                       /\ synthetic.id \notin ChildIds(planet)
                       /\ synthetic.metrics.volume = VolumeOf(replaced)
                  ELSE shown.children = planet.children
               /\ VolumeOf(shown.children) = VolumeOf(planet.children)

C2_Witness ==
    /\ Returned
    /\ config.maxSatellitesPerPlanet = 1
    /\ \E i \in 1..Len(tabs) :
        /\ Len(tabs[i].node.children) = 3
        /\ \A c \in ChildrenOf(tabs[i].node) : c.metrics.volume > 0
        /\ Len(last.before[i].node.children) = 3

(***************************************************************************)
(* C9.  setConfig takes effect on the next getState(): every getState()    *)
(* coagulates with the cap in force at that call, so a planet with at most *)
(* that many satellites shows each of them with its full metrics, whatever *)
(* earlier snapshots squashed.  Coagulation touches the snapshot only: the *)
(* aggregator's own satellites are not removed, merged or re-ordered by    *)
(* it; getState() removes from the tree only what is out of the window.    *)
(***************************************************************************)
C9_ConfigTakesEffect ==
    /\ [](Returned =>
            \A i \in 1..Len(tabs) :
                IF Len(tabs[i].node.children) <= config.maxSatellitesPerPlanet
                THEN last.returned.domains[i] = tabs[i].node
                ELSE /\ Len(last.returned.domains[i].children) = config.maxSatellitesPerPlanet + 1
                     /\ last.returned.domains[i].metrics = tabs[i].node.metrics)
    /\ [][last'.op = "getState" =>
            /\ config' = config
            /\ \A i \in 1..Len(tabs') :
                LET was == MapGet(tabs, tabs'[i].key)
                    is == tabs'[i].node
                IN /\ is.children = SelectSeq(was.children, LAMBDA c : c \in ChildrenOf(is))
                   /\ \A c \in ChildrenOf(was) \ ChildrenOf(is) :
                        c.metrics.lastActive <= now - WindowDurationMs
                   /\ [is EXCEPT !.children = was.children] = was]_vars

C9_Witness ==
    /\ Returned
    /\ config.maxSatellitesPerPlanet = 2
    /\ \E i \in 1..Len(tabs) :
        /\ Len(tabs[i].node.children) = 2
        /\ last.returned.domains[i].children = tabs[i].node.children
        /\ tabs[i].node.children[1].metrics.volume < tabs[i].node.children[2].metrics.volume

(***************************************************************************)
(* C3.  As claimed: after the example's nineteen records getState()        *)
(* returns one planet, id "1", whose children are the example.com          *)
(* satellite with volume 550, eight subdomain satellites, and one cluster  *)
(* node that squashes the one remaining subdomain, with volume 5.          *)
(***************************************************************************)
ScenarioReturned == Returned /\ ExampleSent = 10 /\ SubdomainsSent = 9

IsSubdomain(id) == \E j \in 1..9 : id = SubdomainOf(j)

C3_Scenario ==
    ScenarioReturned =>
        /\ Len(last.returned.domains) = 1
        /\ LET planet == last.returned.domains[1]
               satellites == SelectSeq(planet.children, LAMBDA c : IsSubdomain(c.id))
               clusters == SelectSeq(planet.children,
                                LAMBDA c : c.id # ExampleHost /\ ~IsSubdomain(c.id))
           IN /\ planet.id = "1"
              /\ \E c \in ChildrenOf(planet) : c.id = ExampleHost /\ c.metrics.volume = 550
              /\ Len(satellites) = 8
              /\ Len(clusters) = 1
              /\ clusters[1].metrics.volume = 5
              /\ Len(planet.children) = 10

(***************************************************************************)
(* C3, amended.  getState() returns one planet, id "1", with nine          *)
(* children: the example.com satellite with volume 550, the seven          *)
(* subdomain satellites that were created first, each with volume 5, and   *)
(* one cluster node that squashes the two remaining subdomains, with       *)
(* volume 10.                                                              *)
(***************************************************************************)
C3_ScenarioKeepsEight ==
    ScenarioReturned =>
        /\ Len(last.returned.domains) = 1
        /\ LET planet == last.returned.domains[1]
           IN /\ planet.id = "1"
              /\ planet.metrics.frequency = 19
              /\ planet.metrics.volume = 595
              /\ Len(planet.children) = 9
              /\ planet.children[1].id = ExampleHost
              /\ planet.children[1].metrics.volume = 550
              /\ planet.children[1].metrics.frequency = 10
              /\ \A j \in 1..7 :
                    /\ planet.children[j + 1].id = SubdomainOf(j)
                    /\ planet.children[j + 1].metrics.volume = 5
              /\ ~IsSubdomain(planet.children[9].id)
              /\ planet.children[9].metrics.volume = 10
              /\ planet.children[9].metrics.frequency = 2

C3_Witness ==
    /\ ScenarioReturned
    /\ Len(tabs) = 1
    /\ Len(tabs[1].node.children) = 10
    /\ Len(last.returned.domains[1].children) < 10

(***************************************************************************)
(* C4.  As claimed: a planet that is stale (lastActive older than          *)
(* now - windowDurationMs) never becomes active again with its accumulated *)
(* metrics; the next record for its tab yields a new planet with frequency *)
(* 1 and the volume of that record only.                                   *)
(***************************************************************************)
C4_NoReactivation ==
    [][\A packet \in Added :
        (/\ NamesTab(packet)
         /\ MapHas(tabs, packet.tabId)
         /\ MapGet(tabs, packet.tabId).metrics.lastActive < now - WindowDurationMs)
        => /\ MapGet(tabs', packet.tabId).metrics.frequency = 1
           /\ MapGet(tabs', packet.tabId).metrics.volume = BytesOf(packet)]_vars

(***************************************************************************)
(* C4, amended.  A record for a tab that has no planet, also one whose     *)
(* planet prune() deleted, yields a new planet with the tab's id,          *)
(* frequency 1 and the volume of that record only, with one satellite.     *)
(* A stale planet that no prune() has deleted yet is active again after a  *)
(* record for its tab, with its accumulated metrics.                       *)
(***************************************************************************)
C4_PrunedPlanetIsRecreated ==
    [][\A packet \in Added :
        NamesTab(packet) =>
            /\ MapHas(tabs', packet.tabId)
            /\ LET planet == MapGet(tabs', packet.tabId)
               IN IF MapHas(tabs, packet.tabId)
                  THEN /\ planet.metrics.frequency = MapGet(tabs, packet.tabId).metrics.frequency + 1
                       /\ planet.metrics.volume = MapGet(tabs, packet.tabId).metrics.volume + BytesOf(packet)
                       /\ planet.metrics.lastActive = now
                  ELSE /\ planet.id = DecimalOf[packet.tabId]
                       /\ planet.metrics = [frequency |-> 1, volume |-> BytesOf(packet),
                                            lastActive |-> now]
                       /\ Len(planet.children) = 1
                       /\ planet.children[1].metrics = planet.metrics]_vars

C4_Witness ==
    /\ last.op = "addPacket"
    /\ \E key \in pruned :
        /\ MapHas(tabs, key)
        /\ MapGet(tabs, key).metrics.frequency = 1
        /\ MapGet(tabs, key).metrics.lastActive = now

(***************************************************************************)
(* C5.  The object getState() returned shares no state with the            *)
(* aggregator: (a) a write of the caller to it (a planet's metrics, label  *)
(* or children list, a satellite's metrics) leaves the aggregator's tree   *)
(* unchanged; (b) a later addPacket or prune leaves what the caller reads  *)
(* through it unchanged.                                                   *)
(***************************************************************************)
C5_SnapshotIsolation ==
    [][/\ last'.op = "caller" => tabs' = tabs /\ interstellar' = interstellar
       /\ last'.op \in {"addPacket", "prune", "tick", "setConfig"} =>
            View(snap', tabs') = View(snap, tabs)]_vars

(***************************************************************************)
(* C6.  addPacket on a record that names a tab updates exactly two nodes,  *)
(* the tab's planet and the satellite of the record's hostname under it,   *)
(* creating each if absent: frequency + 1, volume + request and response   *)
(* content length (missing as 0), lastActive = now.  Nothing else changes. *)
(***************************************************************************)
C6_AddPacketUpdatesTwoNodes ==
    [][\A packet \in Added :
        NamesTab(packet) =>
            LET key == packet.tabId
                host == HostOf(packet)
                planet == MapGet(tabs', key)
                had == IF MapHas(tabs, key) THEN MapGet(tabs, key).children ELSE <<>>
            IN /\ MapHas(tabs', key)
               /\ planet.metrics = Counted(MetricsOrNone(tabs, key), packet)
               /\ FindChild(planet.children, host) # 0
               /\ ChildMetricsOrNone(tabs', key, host)
                    = Counted(ChildMetricsOrNone(tabs, key, host), packet)
               /\ OtherChildren(planet.children, host) = OtherChildren(had, host)
               /\ Len(planet.children) = Len(had) + (IF FindChild(had, host) = 0 THEN 1 ELSE 0)
               /\ Others(tabs', key) = Others(tabs, key)
               /\ Len(tabs') = Len(tabs) + (IF MapHas(tabs, key) THEN 0 ELSE 1)
               /\ interstellar' = interstellar]_vars

C6_Witness ==
    /\ last.op = "addPacket"
    /\ Len(tabs) = 2
    /\ \E p \in PlanetsOf(tabs) : p.metrics.volume > 0 /\ p.metrics.lastActive = now

(***************************************************************************)
(* C7.  A record whose tabId is missing or -1 creates or updates exactly   *)
(* one asteroid, keyed by its hostname, and no planet or satellite; no     *)
(* asteroid is part of a state getState() returns.                         *)
(***************************************************************************)
C7_InterstellarRouting ==
    /\ [][\A packet \in Added :
            ("tabId" \notin DOMAIN packet \/ packet.tabId = -1) =>
                /\ tabs' = tabs
                /\ MapHas(interstellar', HostOf(packet))
                /\ MapGet(interstellar', HostOf(packet)).type = "asteroid"
                /\ MapGet(interstellar', HostOf(packet)).metrics
                        = Counted(MetricsOrNone(interstellar, HostOf(packet)), packet)
                /\ Others(interstellar', HostOf(packet)) = Others(interstellar, HostOf(packet))]_vars
    /\ [](Returned =>
            \A p \in ReturnedPlanets :
                /\ p.type = "planet"
                /\ \E q \in PlanetsOf(tabs) : q.id = p.id /\ q.metrics = p.metrics
                /\ \A c \in ChildrenOf(p) : c.type # "asteroid")

C7_Witness ==
    /\ Returned
    /\ Len(interstellar) > 0
    /\ Len(last.returned.domains) > 0

(***************************************************************************)
(* C8.  prune() removes a planet, a satellite of a surviving planet and an *)
(* asteroid by one and the same test, lastActive older than                *)
(* now - windowDurationMs: nodes with equal lastActive are all kept or all *)
(* removed, and a node whose lastActive is not older is kept.              *)
(***************************************************************************)
C8_SameCutoff ==
    (last.op \in {"prune", "getState"}) =>
        \A i \in 1..Len(last.before) :
            LET key == last.before[i].key
                planet == last.before[i].node
            IN /\ MapHas(tabs, key) <=> ~(planet.metrics.lastActive < now - WindowDurationMs)
               /\ \A c \in ChildrenOf(planet) :
                    c.metrics.lastActive = planet.metrics.lastActive =>
                        (MapHas(tabs, key) <=> SatelliteLive(SatelliteRef(key, c.id), tabs))
               /\ \A j \in 1..Len(last.asteroids) :
                    last.asteroids[j].node.metrics.lastActive = planet.metrics.lastActive =>
                        (MapHas(tabs, key) <=> MapHas(interstellar, last.asteroids[j].key))

(***************************************************************************)
(* C10.  Identity: at most one planet per tab id, its id the string form   *)
(* of the tab id, also after it was pruned and recreated; no two           *)
(* satellites of a planet share an id; a satellite's id is the hostname of *)
(* every record that updated it, 'unknown' for a url that does not parse.  *)
(***************************************************************************)
C10_Identity ==
    /\ [](/\ \A i, j \in 1..Len(tabs) : tabs[i].key = tabs[j].key => i = j
          /\ \A i \in 1..Len(tabs) :
                /\ tabs[i].key \in DOMAIN DecimalOf
                /\ tabs[i].node.id = DecimalOf[tabs[i].key]
                /\ \A a, b \in 1..Len(tabs[i].node.children) :
                    tabs[i].node.children[a].id = tabs[i].node.children[b].id => a = b)
    /\ [][\A packet \in Added :
            NamesTab(packet) =>
                \A c \in ChildrenOf(MapGet(tabs', packet.tabId)) :
                    (\/ ~MapHas(tabs, packet.tabId)
                     \/ c \notin ChildrenOf(MapGet(tabs, packet.tabId)))
                    => c.id = HostOf(packet)]_vars

C10_Witness ==
    /\ \E key \in pruned : MapHas(tabs, key) /\ Len(MapGet(tabs, key).children) = 2
    /\ \E p \in PlanetsOf(tabs) : \E c \in ChildrenOf(p) : c.id = "unknown"

\* the frequencies of a list of nodes, summed
FrequencyOf(nodes) == SumSeq([i \in 1..Len(nodes) |-> nodes[i].metrics.frequency])

\* the planets of the tree that the returned snapshot shows coagulated
Coagulated ==
    {i \in 1..Len(tabs) : Len(tabs[i].node.children) > config.maxSatellitesPerPlanet}

\* the node that stands for the squashed satellites of planet i
SyntheticOf(i) ==
    last.returned.domains[i].children[Len(last.returned.domains[i].children)]

\* the satellites of planet i the snapshot does not show
ReplacedOf(i) ==
    SelectSeq(tabs[i].node.children,
              LAMBDA c : c \notin ChildrenOf(last.returned.domains[i]))

(***************************************************************************)
(* C11.  As claimed: the node getState() puts in place of the squashed     *)
(* satellites has type "cluster", its frequency is the sum of the squashed *)
(* satellites' frequencies, and its label is "+k Others" with k the number *)
(* of satellites it replaced (the satellite count minus the cap).          *)
(***************************************************************************)
C11_ClusterNode ==
    Returned =>
        \A i \in Coagulated :
            /\ SyntheticOf(i).type = "cluster"
            /\ SyntheticOf(i).metrics.frequency = FrequencyOf(ReplacedOf(i))
            /\ SyntheticOf(i).label =
                "+" \o StringOf(Len(tabs[i].node.children) - config.maxSatellitesPerPlanet)
                    \o " Others"

(***************************************************************************)
(* C12.  As claimed: in every returned state every planet's children list  *)
(* has at most maxSatellitesPerPlanet entries, for the cap in force at the *)
(* call.                                                                   *)
(***************************************************************************)
C12_ChildrenWithinCap ==
    Returned =>
        \A p \in ReturnedPlanets : Len(p.children) <= config.maxSatellitesPerPlanet

(***************************************************************************)
(* C12, amended.  In every returned state a planet's children list has at  *)
(* most maxSatellitesPerPlanet + 1 entries: at most the cap of the         *)
(* aggregator's satellites, and after them, exactly when the planet has    *)
(* more satellites than the cap, the one synthetic node.                   *)
(***************************************************************************)
C12_ChildrenWithinCapPlusOne ==
    Returned =>
        \A i \in 1..Len(tabs) :
            LET shown == last.returned.domains[i].children
                own == SelectSeq(shown, LAMBDA c : c \in ChildrenOf(tabs[i].node))
                max == config.maxSatellitesPerPlanet
            IN /\ Len(shown) <= max + 1
               /\ Len(own) <= max
               /\ Len(shown) - Len(own) = IF i \in Coagulated THEN 1 ELSE 0
               /\ i \in Coagulated => Len(shown) = max + 1

C12_Witness ==
    /\ Returned
    /\ \E i \in Coagulated :
        /\ config.maxSatellitesPerPlanet = 2
        /\ Len(tabs[i].node.children) = 3
        /\ Len(last.returned.domains[i].children) = 3

(***************************************************************************)
(* The vocabulary.                                                         *)
(***************************************************************************)
\* the tombstone counter before record k of the tick's batch
StonesBefore(k) == IF k = 1 THEN tombstones ELSE points'[k - 1].diagnostics.tombstones

\* record k of the tick's batch ran a compaction
Compacted(k) == points'[k].diagnostics.tombstones # StonesBefore(k)

\* C13: after every updateVocab call the vocabulary holds at most
\* vocabSize * 1.2 entries, and at most vocabSize entries right after a call
\* in which a compaction ran
C13_VocabularyBound ==
    [][trace'.op = "processQueue" =>
        /\ \A k \in 1..Len(points') :
            /\ Len(trace'.saw[k].vocab) = points'[k].diagnostics.vocabSize
            /\ 5 * points'[k].diagnostics.vocabSize <= 6 * VEC_CONFIG.vocabSize
            /\ Compacted(k) => points'[k].diagnostics.vocabSize <= VEC_CONFIG.vocabSize
        /\ Len(points') > 0 => vocab' = trace'.saw[Len(points')].vocab]_vars

\* a tick whose first record left more than vocabSize entries and whose
\* second record compacted the vocabulary to vocabSize entries
C13_Witness ==
    /\ trace.op = "processQueue"
    /\ Len(points) = 2
    /\ points[1].diagnostics.vocabSize > VEC_CONFIG.vocabSize
    /\ points[2].diagnostics.tombstones = points[1].diagnostics.tombstones + 1
    /\ points[2].diagnostics.vocabSize = VEC_CONFIG.vocabSize
    /\ Len(vocab) = VEC_CONFIG.vocabSize

\* the table of record k of the tick's batch, counted and before any cut
CountedAt(k) == trace'.saw[k].counted

\* the table record k of the tick's batch left
KeptAt(k) == trace'.saw[k].vocab

\* the entries of the counted table that record k's table no longer holds
EvictedAt(k) ==
    {j \in 1..Len(CountedAt(k)) : ~MapHas(KeptAt(k), CountedAt(k)[j].key)}

\* C14: a compaction keeps the top vocabSize entries by count: every
\* retained count is at least every evicted count, retained tokens keep
\* their counts, and the tombstone counter rises by exactly one; the counter
\* changes in no other circumstance
C14_CompactionKeepsTop ==
    [][IF trace'.op = "processQueue"
       THEN /\ \A k \in 1..Len(points') :
                IF EvictedAt(k) # {}
                THEN /\ points'[k].diagnostics.tombstones = StonesBefore(k) + 1
                     /\ Len(KeptAt(k)) = VEC_CONFIG.vocabSize
                     /\ \A i \in 1..Len(KeptAt(k)) :
                            /\ MapHas(CountedAt(k), KeptAt(k)[i].key)
                            /\ MapGet(CountedAt(k), KeptAt(k)[i].key) = KeptAt(k)[i].node
                            /\ \A j \in EvictedAt(k) :
                                    KeptAt(k)[i].node >= CountedAt(k)[j].node
                ELSE /\ points'[k].diagnostics.tombstones = StonesBefore(k)
                     /\ KeptAt(k) = CountedAt(k)
            /\ tombstones' = IF points' = <<>> THEN tombstones
                             ELSE points'[Len(points')].diagnostics.tombstones
       ELSE tombstones' = tombstones]_vars

\* a compaction that evicted a token counted once and kept a token counted
\* more than once
C14_Witness ==
    /\ trace.op = "processQueue"
    /\ tombstones > 0
    /\ \E k \in 1..Len(points) :
        /\ Len(trace.saw[k].vocab) < Len(trace.saw[k].counted)
        /\ \E i \in 1..Len(trace.saw[k].vocab) : trace.saw[k].vocab[i].node > 1
        /\ \E j \in 1..Len(trace.saw[k].counted) :
            /\ trace.saw[k].counted[j].node = 1
            /\ ~MapHas(trace.saw[k].vocab, trace.saw[k].counted[j].key)

(***************************************************************************)
(* The embedding and the clusters.                                         *)
(***************************************************************************)
\* the embedding is the sentinel onlinePCA returns on a reset
IsSentinel(y) == \A i \in 1..Len(y) : IsNaN(y[i])

\* C15: after N embeddings went through onlineKMeans, the sentinel
\* included, the per-centroid counters sum to N (as claimed: violated by the
\* first sentinel)
C15_CountConservation == SumSeq(kmeans.counts) = docCount

\* the squared distance of the embedding of the tick's record k to centroid
\* i, with the centroids as they were when the record was assigned
DistanceAt(k, i) == SquaredDistance(points[k].y, trace.saw[k].centers, i, VEC_CONFIG)

\* C16: the cluster of every Point is an integer in [0, kClusters), the
\* index of a nearest centroid and the lowest such index (as claimed:
\* violated by the Point of a sentinel, whose cluster is -1)
C16_ClusterInRange ==
    trace.op = "processQueue" =>
        \A k \in 1..Len(points) :
            /\ points[k].cluster \in 0..(VEC_CONFIG.kClusters - 1)
            /\ \A i \in 0..(VEC_CONFIG.kClusters - 1) :
                /\ ~FLess(DistanceAt(k, i), DistanceAt(k, points[k].cluster))
                /\ i < points[k].cluster =>
                        FLess(DistanceAt(k, points[k].cluster), DistanceAt(k, i))

\* State.pca.W when onlinePCA was called for the tick's record k
WeightsBefore(k) == trace.saw[k].before

\* the product onlinePCA computed for the tick's record k
ComputedAt(k) == Embedding(trace.saw[k].scaled, trace.saw[k].W, VEC_CONFIG)

\* onlinePCA reset the weights at the tick's record k
ResetAt(k) == \E i \in 1..VEC_CONFIG.pcaDim : ~IsFinite(ComputedAt(k)[i])

\* C17: when onlinePCA computes an embedding with a non-finite component it
\* leaves W uninitialized and returns pcaDim NaNs; the next call draws W
\* afresh before computing, so the embedding of a finite input right after a
\* reset is computed from freshly drawn weights only
C17_ResetRecovery ==
    trace.op = "processQueue" =>
        /\ \A k \in 1..Len(points) :
            /\ IF ResetAt(k)
               THEN /\ trace.saw[k].after = Null
                    /\ Len(points[k].y) = VEC_CONFIG.pcaDim
                    /\ IsSentinel(points[k].y)
               ELSE /\ trace.saw[k].after # Null
                    /\ points[k].y = ComputedAt(k)
            /\ IF WeightsBefore(k) = Null
               THEN trace.saw[k].W \in WeightDraws(VEC_CONFIG)
               ELSE trace.saw[k].W = WeightsBefore(k)
            /\ k > 1 => WeightsBefore(k) = trace.saw[k - 1].after
        /\ Len(points) > 0 => pca.W = trace.saw[Len(points)].after

\* a tick whose first record met trained weights and reset them, and whose
\* second record, a finite input, got a finite embedding
C17_Witness ==
    /\ trace.op = "processQueue"
    /\ Len(points) = 2
    /\ WeightsBefore(1) # Null
    /\ WeightsBefore(1) \notin WeightDraws(VEC_CONFIG)
    /\ ResetAt(1)
    /\ IsSentinel(points[1].y)
    /\ WeightsBefore(2) = Null
    /\ IsFinite(trace.saw[2].scaled[1])
    /\ trace.saw[2].scaled[1] # Num(0)
    /\ \A i \in 1..VEC_CONFIG.pcaDim : IsFinite(points[2].y[i])
    /\ pca.W # Null

(***************************************************************************)
(* The settings.                                                           *)
(***************************************************************************)
\* C18: after any applySettings calls the configuration in force has
\* 0 <= minDfRatio <= maxDfRatio <= 1 (as claimed: violated by a settings
\* object whose minDfRatio is above its maxDfRatio)
C18_BandValid ==
    /\ ~FLess(VEC_CONFIG.minDfRatio, Num(0))
    /\ ~FGreater(VEC_CONFIG.minDfRatio, VEC_CONFIG.maxDfRatio)
    /\ ~FGreater(VEC_CONFIG.maxDfRatio, Num(1))

(***************************************************************************)
(* The queue.                                                              *)
(***************************************************************************)
\* the requestIds of a list of records or Points
QueuedIds == [k \in 1..Len(pktQueue) |-> pktQueue[k].requestId]
PointIds == [k \in 1..Len(points) |-> points[k].id]

\* C19: records are processed in the order they were enqueued, within a
\* tick's batch and across ticks, none twice and none before an earlier one
C19_Fifo ==
    /\ trace.enqueued = trace.processed \o QueuedIds
    /\ \A i, j \in 1..Len(trace.enqueued) :
            i < j => trace.enqueued[i] < trace.enqueued[j]
    /\ trace.op = "processQueue" =>
        /\ Len(points) <= Len(trace.processed)
        /\ PointIds = SubSeq(trace.processed,
                             Len(trace.processed) - Len(points) + 1,
                             Len(trace.processed))

\* a second tick that processed the two records enqueued after the first
\* tick
C19_Witness ==
    /\ trace.op = "processQueue"
    /\ trace.processed = <<1, 2, 3>>
    /\ PointIds = <<2, 3>>

\* C20: a tick removes min(queue length, batch) records from the head of
\* the queue, adds that number to docCount and produces one Point per
\* removed record, with its requestId, url and timestamp; a tick on an
\* empty queue changes nothing and produces nothing
C20_BatchDrain ==
    [][trace'.op = "processQueue" =>
        LET drained == Min(Len(pktQueue), VEC_CONFIG.batch)
        IN /\ pktQueue' = SubSeq(pktQueue, drained + 1, Len(pktQueue))
           /\ docCount' = docCount + drained
           /\ Len(points') = drained
           /\ \A k \in 1..drained :
                /\ points'[k].id = pktQueue[k].requestId
                /\ points'[k].url = pktQueue[k].url
                /\ points'[k].ts = pktQueue[k].timeStamp
           /\ Len(pktQueue) = 0 =>
                /\ UNCHANGED <<VEC_CONFIG, pktQueue, vocab, tombstones, docCount, pca, kmeans, R>>
                /\ UNCHANGED <<lastEmit, callbacks, stored>>]_vars

\* a tick on a queue longer than the batch: a full batch of Points, and
\* records left in the queue
C20_Witness ==
    /\ trace.op = "processQueue"
    /\ Len(points) = VEC_CONFIG.batch
    /\ docCount = VEC_CONFIG.batch
    /\ Len(pktQueue) > 0
    /\ PointIds = SubSeq(trace.enqueued, 1, VEC_CONFIG.batch)

(***************************************************************************)
(* The emission.                                                           *)
(***************************************************************************)
\* the list the running callback of storage.get builds: result.concat(points)
AllPoints == Head(callbacks).result \o Head(callbacks).points

\* the number of entries by which that list exceeds the maximum
Excess == IF Len(AllPoints) > MaxRetained THEN Len(AllPoints) - MaxRetained ELSE 0

\* C21: after every emission the stored list has at most the maximum of
\* entries; when the list would exceed it, exactly the entries at its front
\* are evicted, the others keep their order, and the emission's own points
\* are retained
C21_RetainedBound ==
    /\ [](Len(stored) <= MaxRetained)
    /\ [][trace'.op = "getCallback" =>
            /\ Len(stored') = Len(AllPoints) - Excess
            /\ \A i \in 1..Len(stored') : stored'[i] = AllPoints[i + Excess]
            /\ SubSeq(stored', Len(stored') - Len(Head(callbacks).points) + 1, Len(stored'))
                    = Head(callbacks).points]_vars

\* an emission that evicted the oldest point and kept the newest
C21_Witness ==
    /\ trace.op = "getCallback"
    /\ Len(stored) = MaxRetained
    /\ stored[1].id > 1
    /\ \A i \in 1..(Len(stored) - 1) : stored[i + 1].id = stored[i].id + 1
    /\ stored[Len(stored)].id = Len(trace.processed)

\* a tick of processQueue issued an emission
Issued == Len(callbacks') = Len(callbacks) + 1

\* C22: two consecutive emissions are more than 1000 / emitHz ms apart, so
\* at most emitHz emissions fall into any one second; lastEmit is updated
\* exactly when an emission is issued
C22_RateLimit ==
    /\ [](/\ \A i \in 1..Len(emitted) : \A j \in (i + 1)..Len(emitted) :
                FGreater(Num(emitted[j] - emitted[i]), Q((j - i) * 1000, VEC_CONFIG.emitHz))
          /\ \A i \in 1..Len(emitted) :
                Cardinality({j \in i..Len(emitted) : emitted[j] <= emitted[i] + 1000})
                    <= VEC_CONFIG.emitHz
          /\ emitted # <<>> => lastEmit = emitted[Len(emitted)])
    /\ [][/\ lastEmit' # lastEmit <=> Issued
          /\ Issued =>
                /\ trace'.op = "processQueue"
                /\ FGreater(Num(clock - lastEmit), Q(1000, VEC_CONFIG.emitHz))
                /\ lastEmit' = clock
                /\ callbacks'[Len(callbacks')].points = points'
                /\ emitted' = Append(emitted, clock)
          /\ ~Issued => Len(callbacks') <= Len(callbacks) /\ emitted' = emitted]_vars

\* two emissions as close as the limit lets them be: 101 ms apart
C22_Witness ==
    /\ trace.op = "processQueue"
    /\ Len(emitted) >= 2
    /\ emitted[Len(emitted)] - emitted[Len(emitted) - 1] = 101
    /\ lastEmit = clock

(***************************************************************************)
(* The tokens.                                                             *)
(***************************************************************************)
StartsWith(str, prefix) ==
    Len(str) >= Len(prefix) /\ SubSeq(str, 1, Len(prefix)) = prefix

\* the tokens of a list, as a set
TokenSet(tokens) == {tokens[i] : i \in 1..Len(tokens)}

\* the families of tokens that tokenize derives from the URL
UrlFamilies == {"host:", "root:", "path:", "pathseg:", "depth:", "query:"}

\* the tokens of the tick's record k, as its point carries them
TokensAt(k) == points'[k].diagnostics.tokens

SizeBands == <<"none", "tiny", "small", "medium", "large", "huge">>
SizeThresholds == {1, 1024, 16384, 131072, 1048576}

\* the position of the band of a byte count, counted from 0
BandRank(bytes) == Cardinality({t \in SizeThresholds : bytes >= t})
BandName(bytes) == SizeBands[BandRank(bytes) + 1]

\* the byte counts of the tick's record k
ReqBytesAt(k) == pktQueue[k].requestContentLength + pktQueue[k].requestHeadersSize
ResBytesAt(k) == pktQueue[k].responseContentLength + pktQueue[k].responseHeadersSize

\* the tokens of a family among the tokens of the tick's record k
FamilyAt(k, family) == {token \in TokenSet(TokensAt(k)) : StartsWith(token, family)}

ShownOf(i) ==
    SubSeq(last.returned.domains[i].children, 1,
           Len(last.returned.domains[i].children) - 1)

AssignedTo(i) ==
    LET chosen == SelectSeq(trace.assigned, LAMBDA a : a.cluster = i)
    IN [n \in 1..Len(chosen) |-> chosen[n].y]

\* component j of the arithmetic mean of a list of embeddings
MeanOf(ys, j) == FDiv(FSum([n \in 1..Len(ys) |-> ys[n][j]]), Num(Len(ys)))

\* component j of centroid i (0-based) in a flat array
CenterAt(centers, i, j) == centers[i * VEC_CONFIG.pcaDim + j]

\* the centroids after the tick's record k
CentersAfter(k) == IF k = Len(trace'.saw) THEN kmeans'.centers ELSE trace'.saw[k + 1].centers

\* C24: the counter of every centroid is the number of embeddings assigned
\* to it, and a centroid with assignments is the arithmetic mean of exactly
\* those embeddings, whatever its random initial position was; a call
\* changes no centroid but the chosen one, and no counter but its counter
C24_RunningMean ==
    /\ [](\A i \in 0..(VEC_CONFIG.kClusters - 1) :
            /\ kmeans.counts[i + 1] = Len(AssignedTo(i))
            /\ Len(AssignedTo(i)) > 0 =>
                    \A j \in 1..VEC_CONFIG.pcaDim :
                        CenterAt(kmeans.centers, i, j) = MeanOf(AssignedTo(i), j)
            /\ Len(AssignedTo(i)) = 0 /\ kmeans.centers # Null =>
                    \E drawn \in CenterDraws(VEC_CONFIG) :
                        \A j \in 1..VEC_CONFIG.pcaDim :
                            CenterAt(kmeans.centers, i, j) = CenterAt(drawn, i, j))
    /\ [][\A k \in 1..Len(trace'.saw) :
            \A i \in 0..(VEC_CONFIG.kClusters - 1) :
                i # trace'.assigned[Len(trace.assigned) + k].cluster =>
                    \A j \in 1..VEC_CONFIG.pcaDim :
                        CenterAt(CentersAfter(k), i, j) = CenterAt(trace'.saw[k].centers, i, j)]_vars

\* a centroid that took two different finite embeddings, neither its
\* initial position, next to a centroid that took none
C24_Witness ==
    /\ kmeans.centers # Null
    /\ \E i, i2 \in 0..(VEC_CONFIG.kClusters - 1) :
        /\ Len(AssignedTo(i)) = 2
        /\ AssignedTo(i)[1] # AssignedTo(i)[2]
        /\ \A drawn \in CenterDraws(VEC_CONFIG) : \A n \in 1..2 :
                AssignedTo(i)[n][1] # CenterAt(drawn, i, 1)
        /\ Len(AssignedTo(i2)) = 0

(***************************************************************************)
(* The sentinel.                                                           *)
(***************************************************************************)
\* the points rebuildGeometry goes on with
Displayed == Valid(allPackets)

\* the point the vectorizer made with this id has a finite embedding
FiniteAsMade(id) ==
    \E a \in 1..Len(trace.assigned) :
        /\ trace.processed[a] = id
        /\ \A i \in 1..Len(trace.assigned[a].y) : IsFinite(trace.assigned[a].y[i])

\* C29: a Point whose embedding has a component that is not finite never
\* enters the displayed point set of the 3D view, and the sentinel changes
\* no centroid and no counter of the k-means stage (as claimed: violated by
\* a sentinel whose NaNs the view receives as nulls)
C29_SentinelContained ==
    /\ [](\A k \in 1..Len(Displayed) : FiniteAsMade(Displayed[k].id))
    /\ [][\A k \in 1..Len(trace'.saw) :
            IsSentinel(trace'.assigned[Len(trace.assigned) + k].y) =>
                /\ CentersAfter(k) = trace'.saw[k].centers
                /\ \A i \in 0..(VEC_CONFIG.kClusters - 1) :
                        trace'.assigned[Len(trace.assigned) + k].cluster # i]_vars

(***************************************************************************)
(* The hashed vector.                                                      *)
(***************************************************************************)
\* N and df of vectorize for a token of the tick's record k
DocsAt(k) == IF docCount + k > 1 THEN docCount + k ELSE 1
FrequencyAt(k, token) == CountOf(trace'.saw[k].vocab, token)

\* the document-frequency ratio of the token lies inside the band
InBandAt(k, token) ==
    /\ ~FLess(Q(FrequencyAt(k, token), DocsAt(k)), VEC_CONFIG.minDfRatio)
    /\ ~FGreater(Q(FrequencyAt(k, token), DocsAt(k)), VEC_CONFIG.maxDfRatio)

\* the tokens of the tick's record k that are in the band
InBandOf(k) == {token \in TokenSet(TokensAt(k)) : InBandAt(k, token)}

\* the weight vectorize adds for a token of the tick's record k
AddedFor(k, token) ==
    IF VEC_CONFIG.weighting = "tfidf"
    THEN Weight(1, Q(DocsAt(k) + 1, FrequencyAt(k, token) + 1))
    ELSE Weight(1, Num(1))

\* the sum of the weights added for a set of tokens
RECURSIVE AddedOver(_, _)
AddedOver(k, tokens) ==
    IF tokens = {} THEN Weight(0, Num(1))
    ELSE LET token == CHOOSE t \in tokens : TRUE
         IN WAdd(AddedFor(k, token), AddedOver(k, tokens \ {token}))

\* the sum of the elements of a hashed vector
RECURSIVE SumOfElements(_, _)
SumOfElements(vec, indexes) ==
    IF indexes = {} THEN Weight(0, Num(1))
    ELSE LET j == CHOOSE x \in indexes : TRUE
         IN WAdd(vec[j], SumOfElements(vec, indexes \ {j}))

\* C26: the hashed vector of every record has its elements at indexes in
\* [0, hashDim); the element at an index is the sum of the weights of the
\* tokens in the band that hash to it, colliding tokens added up, and a
\* token outside the band adds nothing; under 'count' the elements sum to
\* the number of tokens in the band
C26_HashedVector ==
    /\ [](\A token \in AllTokens : TokenHashes[token] \in 0..(HashDim - 1))
    /\ [][trace'.op = "processQueue" =>
            \A k \in 1..Len(points') :
                /\ DOMAIN trace'.saw[k].vec \subseteq 0..(VEC_CONFIG.hashDim - 1)
                /\ DOMAIN trace'.saw[k].vec =
                        {HashOf(token, VEC_CONFIG) : token \in InBandOf(k)}
                /\ \A j \in DOMAIN trace'.saw[k].vec :
                        trace'.saw[k].vec[j] =
                            AddedOver(k, {token \in InBandOf(k) : HashOf(token, VEC_CONFIG) = j})
                /\ VEC_CONFIG.weighting = "count" =>
                        SumOfElements(trace'.saw[k].vec, DOMAIN trace'.saw[k].vec)
                            = Weight(Cardinality(InBandOf(k)), Num(1))]_vars

\* under 'count', a record with two tokens in the band at one index, whose
\* element is 2, and with tokens outside the band
C26_Witness ==
    /\ trace.op = "processQueue"
    /\ VEC_CONFIG.weighting = "count"
    /\ \E k \in 1..Len(points) :
        /\ \E j \in DOMAIN trace.saw[k].vec : trace.saw[k].vec[j] = Weight(2, Num(1))
        /\ Len(trace.saw[k].weighted) < Len(points[k].diagnostics.tokens)
        /\ Len(trace.saw[k].weighted) > 0

(***************************************************************************)
(* The tf-idf weights.                                                     *)
(***************************************************************************)
\* the most documents the weights are compared for
MaxDocs == 10

\* the tokens of the tick's record k in the band that share their index
\* with no other such token
AloneAt(k) ==
    LET inBand == InBandOf(k)
    IN {token \in inBand :
            \A other \in inBand \ {token} :
                HashOf(other, VEC_CONFIG) # HashOf(token, VEC_CONFIG)}

\* the element of the hashed vector of the tick's record k for a token
ElementFor(k, token) == trace'.saw[k].vec[HashOf(token, VEC_CONFIG)]

\* the document frequency and the element of each token of the tick's record
\* k that is alone at its index
WeighedAt(k) ==
    {[df |-> FrequencyAt(k, token), element |-> ElementFor(k, token)] : token \in AloneAt(k)}

\* C27: under 'tfidf' a token with a lower document frequency gets a
\* strictly larger weight than a token with a higher one (each step of df
\* lowers the weight), for any number of documents; a token seen in 1 of 10 documents outweighs one seen in 10 of
\* 10, and no weight is below 1 when df <= N
C27_TfIdfOrdering ==
    /\ [](\A N \in 1..MaxDocs : \A df \in 0..N :
            /\ ~WLess(Idf(N, df), Weight(1, Num(1)))
            /\ df < N => WLess(Idf(N, df + 1), Idf(N, df)))
    /\ [](WLess(Idf(10, 10), Idf(10, 1)))
    /\ [][trace'.op = "processQueue" /\ VEC_CONFIG.weighting = "tfidf" =>
            \A k \in 1..Len(points') :
                /\ \A token \in TokenSet(TokensAt(k)) : FrequencyAt(k, token) <= DocsAt(k)
                /\ \A a, b \in WeighedAt(k) :
                    /\ ~WLess(a.element, Weight(1, Num(1)))
                    /\ a.df < b.df => WLess(b.element, a.element)]_vars

\* under 'tfidf', the second record has a token the vocabulary does not hold
\* (weight ln 3 + 1) and a token seen in both documents (weight 1)
C27_Witness ==
    /\ trace.op = "processQueue"
    /\ VEC_CONFIG.weighting = "tfidf"
    /\ docCount = 2
    /\ \E k \in 1..Len(trace.saw) :
        /\ CountOf(trace.saw[k].vocab, "host:cdn.b.com") = 0
        /\ CountOf(trace.saw[k].vocab, "method:GET") = 2
        /\ {HashOf("host:cdn.b.com", VEC_CONFIG), HashOf("method:GET", VEC_CONFIG)}
                \subseteq DOMAIN trace.saw[k].vec
        /\ trace.saw[k].vec[HashOf("host:cdn.b.com", VEC_CONFIG)] = Weight(1, Num(3))
        /\ trace.saw[k].vec[HashOf("method:GET", VEC_CONFIG)] = Weight(1, Num(1))

(***************************************************************************)
(* The projection matrix.                                                  *)
(***************************************************************************)
\* the matrix is in place: hashDim * projDim entries, each 1 or -1
MatrixMade(matrix) ==
    /\ matrix # Null
    /\ Len(matrix) = VEC_CONFIG.hashDim * VEC_CONFIG.projDim
    /\ \A idx \in 1..Len(matrix) : matrix[idx] \in {1, -1}

\* C25: R is null until the first project() call, which fills it with
\* hashDim * projDim entries +1 or -1; from then on no step (a tick with or
\* without records, PCA resets in it, applySettings, queuePacket) changes
\* it, and every projection of a tick is the product of the record's
\* hashed vector with that one matrix, so that equal hashed vectors have
\* equal projections whatever was processed before
C25_StableProjection ==
    /\ [](R = Null \/ MatrixMade(R))
    /\ [](R = Null => trace.processed = <<>>)
    /\ [][R # Null => R' = R]_vars
    /\ [][R = Null /\ R' # Null =>
            trace'.op \in {"processQueue", "processQueue threw"} /\ trace'.saw # <<>>]_vars
    /\ [][trace'.op = "processQueue" =>
            /\ trace'.saw # <<>> => MatrixMade(R')
            /\ \A k \in 1..Len(trace'.saw) :
                /\ trace'.saw[k].pvec =
                        Project(trace'.saw[k].vec, IF R = Null THEN R' ELSE R, VEC_CONFIG)
                /\ \A m \in 1..Len(trace'.saw) :
                        trace'.saw[k].vec = trace'.saw[m].vec =>
                            trace'.saw[k].pvec = trace'.saw[m].pvec]_vars

\* a tick projects a record with the matrix an earlier tick made, after the
\* first record met a PCA reset and the weighting was set to 'tfidf'
C25_Witness ==
    /\ trace.op = "processQueue"
    /\ MatrixMade(R)
    /\ VEC_CONFIG.weighting = "tfidf"
    /\ Len(trace.assigned) = 2
    /\ Len(trace.saw) = 1
    /\ IsSentinel(trace.assigned[1].y)
    /\ trace.saw[1].pvec = Project(trace.saw[1].vec, R, VEC_CONFIG)
    /\ \E i \in 1..Len(trace.saw[1].pvec) : trace.saw[1].pvec[i] # Weight(0, Num(1))
(***************************************************************************)
(* The points of the ticks and the storage.                                *)
(***************************************************************************)
\* the record with this requestId has been processed into a Point
Processed(id) == \E k \in 1..Len(trace.processed) : trace.processed[k] = id

\* the stored list holds a Point with this requestId
Reached(id) == \E i \in 1..Len(stored) : stored[i].id = id

\* the stored list is full of Points younger than this one
EvictedByCap(id) ==
    /\ Len(stored) = MaxRetained
    /\ \A i \in 1..Len(stored) : stored[i].id > id

\* C31 (as claimed: violated by a tick inside the emit window): every
\* processed record's Point is eventually in the stored list, unless the cap
\* evicted it
C31_NoPointDropped ==
    \A id \in 1..MaxFairQueued :
        [](Processed(id) => <>(Reached(id) \/ EvictedByCap(id)))
\* C32 (as claimed: violated when the second storage.get is answered before
\* the first callback has written): the list a callback writes is the list
\* stored at that moment followed by the emission's Points, cut to the cap,
\* so that it holds the Points of the emissions written before it
C32_NoLostUpdate ==
    [][trace'.op = "getCallback" =>
        stored' = Retained(stored \o Head(callbacks).points, MaxRetained)]_vars
(***************************************************************************)
(* The queue.                                                              *)
(***************************************************************************)
\* the record with this requestId has been handed to queuePacket
Enqueued(id) == \E k \in 1..Len(trace.enqueued) : trace.enqueued[k] = id

\* C33: the records enqueued are the records processed followed by the
\* records in the queue, in the order of their arrival and each once, and
\* their number is docCount plus the length of the queue; a tick takes
\* records off the head of the queue only, and queuePacket adds at its end;
\* when the ticks keep firing every enqueued record is eventually processed
\* and the queue is empty again
C33_QueueConservation ==
    /\ [](/\ Len(trace.enqueued) = docCount + Len(pktQueue)
          /\ trace.enqueued = trace.processed \o QueuedIds
          /\ \A i, j \in 1..Len(trace.enqueued) :
                trace.enqueued[i] = trace.enqueued[j] => i = j)
    /\ \A id \in 1..MaxDrained : [](Enqueued(id) => <>Processed(id))
    /\ []<>(pktQueue = <<>>)

\* a tick has left a record in the queue that a later tick processed
C33_Witness ==
    /\ trace.op = "processQueue"
    /\ docCount = MaxDrained
    /\ Len(trace.saw) = 1
    /\ pktQueue = <<>>
    /\ trace.processed = trace.enqueued
    /\ Len(trace.processed) > VEC_CONFIG.batch
(***************************************************************************)
(* A record for which a stage throws.                                      *)
(***************************************************************************)
\* the records the tick splices off the queue
BatchOf == Splice(pktQueue, BatchSize(pktQueue, VEC_CONFIG)).batch

\* the tick has run, to its end or to an exception
Ticked == trace'.op \in {"processQueue", "processQueue threw"}

\* C34 (as claimed: violated by a batch whose first record has no
\* responseHeaders): after a tick, every record of its batch for which no
\* stage throws has its Point among the tick's Points or is still in the
\* queue
C34_FailureContained ==
    [][Ticked =>
        \A k \in 1..Len(BatchOf) :
            ~TokenizeThrows(BatchOf[k]) =>
                \/ \E i \in 1..Len(points') : points'[i].id = BatchOf[k].requestId
                \/ \E i \in 1..Len(pktQueue') : pktQueue'[i].requestId = BatchOf[k].requestId]_vars

(***************************************************************************)
(* The document frequencies.                                               *)
(***************************************************************************)
\* df / N as vectorize computes it for a token of the tick's record k
RatioAt(k, token) == Q(FrequencyAt(k, token), DocsAt(k))

\* C35: every count of the vocabulary is at least 1 and at most docCount,
\* after every record of a tick as well; the ratio df / N of every token of
\* a record is in [0, 1], and with maxDfRatio = 1 the tokens that get a
\* weight are exactly those whose ratio is not below minDfRatio
C35_DfSanity ==
    /\ [](\A i \in 1..Len(vocab) : vocab[i].node >= 1 /\ vocab[i].node <= docCount)
    /\ [][trace'.op = "processQueue" =>
            \A k \in 1..Len(points') :
                /\ \A i \in 1..Len(trace'.saw[k].vocab) :
                        /\ trace'.saw[k].vocab[i].node >= 1
                        /\ trace'.saw[k].vocab[i].node <= docCount + k
                /\ \A token \in TokenSet(TokensAt(k)) :
                        /\ ~FLess(RatioAt(k, token), Num(0))
                        /\ ~FGreater(RatioAt(k, token), Num(1))
                /\ VEC_CONFIG.maxDfRatio = Num(1) =>
                        TokenSet(trace'.saw[k].weighted) =
                            {token \in TokenSet(TokensAt(k)) :
                                ~FLess(RatioAt(k, token), VEC_CONFIG.minDfRatio)}]_vars

\* with maxDfRatio = 1, a token seen in both of two records (ratio 1) got a
\* weight, after the vocabulary was compacted
C35_Witness ==
    /\ trace.op = "processQueue"
    /\ VEC_CONFIG.maxDfRatio = Num(1)
    /\ docCount = 2
    /\ tombstones > 0
    /\ CountOf(vocab, "method:GET") = docCount
    /\ \E k \in 1..Len(trace.saw) :
            "method:GET" \in TokenSet(trace.saw[k].weighted)
(***************************************************************************)
(* A planet and its satellites.                                            *)
(***************************************************************************)
\* the sums of the metrics of a planet's satellites
SatelliteFrequency(planet) ==
    SumSeq([i \in 1..Len(planet.children) |-> planet.children[i].metrics.frequency])
SatelliteVolume(planet) ==
    SumSeq([i \in 1..Len(planet.children) |-> planet.children[i].metrics.volume])

\* C36 (as claimed: violated when the clock moves between the two reads of
\* Date.now() in addPacket, and when a satellite of negative volume is
\* pruned): a planet's frequency and volume are at least the sums over its
\* satellites, and its lastActive is at least each satellite's
C36_PlanetDominates ==
    \A p \in 1..Len(tabs) :
        LET planet == tabs[p].node
        IN /\ planet.metrics.frequency >= SatelliteFrequency(planet)
           /\ planet.metrics.volume >= SatelliteVolume(planet)
           /\ \A i \in 1..Len(planet.children) :
                planet.metrics.lastActive >= planet.children[i].metrics.lastActive
(***************************************************************************)
(* Nodes that receive no further records.                                  *)
(***************************************************************************)
\* the satellites of the tree, as pairs of tab and domain
SatellitesIn(map) ==
    UNION {{<<map[p].key, map[p].node.children[i].id>> :
                i \in 1..Len(map[p].node.children)} : p \in 1..Len(map)}

\* the keys of a map
KeysIn(map) == {map[i].key : i \in 1..Len(map)}

\* C37: after every getState() no planet or asteroid is left whose last
\* record is more than windowDurationMs old and no satellite whose last
\* record is windowDurationMs old or more; addPacket removes no planet,
\* satellite or asteroid; and when getState() keeps being called and time
\* passes, the maps are eventually empty and stay so once the records have
\* stopped
C37_EventuallyPruned ==
    /\ [][last'.op = "getState" =>
            /\ \A p \in 1..Len(tabs') :
                /\ now - tabs'[p].node.metrics.lastActive <= WindowDurationMs
                /\ \A i \in 1..Len(tabs'[p].node.children) :
                    now - tabs'[p].node.children[i].metrics.lastActive < WindowDurationMs
            /\ \A a \in 1..Len(interstellar') :
                now - interstellar'[a].node.metrics.lastActive <= WindowDurationMs]_vars
    /\ [][last'.op = "addPacket" =>
            /\ KeysIn(tabs) \subseteq KeysIn(tabs')
            /\ SatellitesIn(tabs) \subseteq SatellitesIn(tabs')
            /\ KeysIn(interstellar) \subseteq KeysIn(interstellar')]_vars
    /\ <>[](tabs = <<>> /\ interstellar = <<>>)

\* getState() has removed the last planet and the last asteroid
C37_Witness ==
    /\ last.op = "getState"
    /\ last.before # <<>>
    /\ last.asteroids # <<>>
    /\ tabs = <<>>
    /\ interstellar = <<>>


(***************************************************************************)
(* C38.  addPacket attaches a record whose tabId is any integer other than *)
(* -1, tabId 0 included, to the planet of that tabId and to the satellite  *)
(* of its hostname under it, and leaves the interstellar map alone.        *)
(***************************************************************************)
C38_EveryTabIdRouted ==
    [][\A packet \in Added :
        ("tabId" \in DOMAIN packet /\ packet.tabId # -1) =>
            /\ MapHas(tabs', packet.tabId)
            /\ FindChild(MapGet(tabs', packet.tabId).children, HostOf(packet)) # 0
            /\ interstellar' = interstellar]_vars


(***************************************************************************)
(* C39.  applySettings(s) works field by field and writes nothing but the  *)
(* four tunables: vocabSize is set when s.vocabSize is a number >= 128,    *)
(* weighting when s.weighting is 'count' or 'tfidf', each ratio (clamped   *)
(* to [0, 1]) when it is a number; a field that is absent or fails its     *)
(* test keeps its value while the other fields of the same object are      *)
(* applied.  hashDim, projDim, pcaDim, kClusters, batch, emitHz, the queue *)
(* and all learned state are left as they were.                            *)
(***************************************************************************)
Tunables == {"vocabSize", "weighting", "minDfRatio", "maxDfRatio"}

\* the test the claim names for a field of a settings object
ValidField(s, field) ==
    /\ field \in DOMAIN s
    /\ CASE field = "vocabSize" ->
                s[field].typeof = "number" /\ s[field].value >= MinVocabSize
         [] field = "weighting" ->
                s[field].typeof = "string" /\ s[field].value \in {"count", "tfidf"}
         [] OTHER -> s[field].typeof = "number"

\* a ratio clamped to [0, 1]
Clamped(x) == IF FLess(x, Num(0)) THEN Num(0) ELSE IF FLess(Num(1), x) THEN Num(1) ELSE x

C39_SettingsFieldwise ==
    [][\A s \in SettingsInputs :
        ApplySettings(s) =>
            /\ DOMAIN VEC_CONFIG' = DOMAIN VEC_CONFIG
            /\ \A field \in DOMAIN VEC_CONFIG \ Tunables : VEC_CONFIG'[field] = VEC_CONFIG[field]
            /\ \A field \in Tunables :
                ~ValidField(s, field) => VEC_CONFIG'[field] = VEC_CONFIG[field]
            /\ ValidField(s, "vocabSize") => VEC_CONFIG'.vocabSize = s.vocabSize.value
            /\ ValidField(s, "weighting") => VEC_CONFIG'.weighting = s.weighting.value
            /\ ValidField(s, "minDfRatio") => VEC_CONFIG'.minDfRatio = Clamped(s.minDfRatio.value)
            /\ ValidField(s, "maxDfRatio") => VEC_CONFIG'.maxDfRatio = Clamped(s.maxDfRatio.value)
            /\ <<pktQueue, vocab, tombstones, docCount, pca, kmeans, points, R>>'
                    = <<pktQueue, vocab, tombstones, docCount, pca, kmeans, points, R>>
            /\ emitVars' = emitVars
            /\ aggVars' = aggVars]_vars

\* the object of odd values applied on top of the filled-in form, with
\* records waiting and records learned: only minDfRatio took a new value
C39_Witness ==
    /\ trace.op = "applySettings"
    /\ VEC_CONFIG.weighting = "tfidf"
    /\ VEC_CONFIG.minDfRatio = Num(0)
    /\ VEC_CONFIG.maxDfRatio = Q(1, 5)
    /\ VEC_CONFIG.vocabSize = MinVocabSize
    /\ pktQueue # <<>>
    /\ docCount > 0


(***************************************************************************)
(* C40.  The adjudicator calls onFallback only at an evaluation whose      *)
(* counter of low evaluations exceeds 3: that evaluation and the three    *)
(* before it each saw at least the minimum of samples and an average FPS   *)
(* below the threshold, and none of the three called onFallback.  A        *)
(* healthy evaluation leaves the counter at 0, a call of onFallback leaves *)
(* it at 0, and fpsHistory never holds more than its maximum of samples.   *)
(***************************************************************************)
\* an evaluation that saw enough samples and a low average
LowEvaluation(e) ==
    /\ e.samples >= MinSamples
    /\ "avgFps" \in DOMAIN e
    /\ FLess(e.avgFps, Num(LowFpsThreshold))

\* an evaluation that saw enough samples and an average not below the threshold
HealthyEvaluation(e) ==
    /\ "avgFps" \in DOMAIN e
    /\ ~FLess(e.avgFps, Num(LowFpsThreshold))

\* the evaluation of this step, if the step evaluated
Evaluated == IF health'.op = "evaluated" THEN {health'.evals[Len(health'.evals)]} ELSE {}

C40_FallbackTrigger ==
    [][/\ \A e \in Evaluated :
            /\ e.fired =>
                /\ e.counter > LowFpsLimit
                /\ Len(health'.evals) = LowFpsLimit + 1
                /\ \A k \in 1..(LowFpsLimit + 1) : LowEvaluation(health'.evals[k])
                /\ \A k \in 1..LowFpsLimit : ~health'.evals[k].fired
                /\ adjudicator'.consecutiveLowFps = 0
                /\ health'.fallbacks = health.fallbacks + 1
            /\ ~e.fired => health'.fallbacks = health.fallbacks
            /\ HealthyEvaluation(e) => adjudicator'.consecutiveLowFps = 0
       /\ Evaluated = {} => health'.fallbacks = health.fallbacks
       /\ Len(adjudicator'.fpsHistory) <= FpsHistoryMax]_vars

\* a second fallback, with a full history
C40_Witness ==
    /\ health.op = "evaluated"
    /\ health.fallbacks = 2
    /\ health.evals[Len(health.evals)].fired
    /\ Len(adjudicator.fpsHistory) = FpsHistoryMax

====
